---- MODULE Spec2Model ----
(***************************************************************************)
(* Face verification with a validity-checked cache of reference            *)
(* embeddings (face_utils.py), and the S3-backed request flow around it    *)
(* (app.py, s3_utils.py).                                                  *)
(*                                                                         *)
(* Conventions of the model                                                *)
(*  - A reference source is a file name; names are the integers 0..NSrc    *)
(*    and their numeric order is the lexicographic order of sorted().      *)
(*    Name 0 carries a non-image suffix, names 1..NSrc an image suffix.    *)
(*  - A path is <<folder, name>>; str(path) is the path itself.            *)
(*  - A fingerprint snapshot (the dict path -> st_mtime) is the set of its *)
(*    items <<path, mtime>>; dict equality is equality of these sets.      *)
(*  - An embedding is a small integer vector; distances are thousandths.   *)
(*  - DeepFace.represent is a black box: what it does on one image with    *)
(*    one detector backend is an Outcome, fixed by the image content.      *)
(*  - Each cached pair carries `ver`, the mtime of the source content the  *)
(*    embedding was extracted from (a history annotation the code does not *)
(*    store); `rep` tells an ndarray from a plain list of floats.          *)
(*  - path.stat() failing in _folder_mtimes (OSError) is not modelled: a   *)
(*    listed file is taken to be stat-able.                                *)
(*  - call.again tells that the call repeats the call that returned just  *)
(*    before it, with the same arguments and nothing changed in between;   *)
(*    call.readOk is what the read of the pickle did (history).            *)
(*                                                                         *)
(* Specifications                                                          *)
(*    Spec         get_ref_embeddings while the reference sources change   *)
(*    SpecRestart  Spec with restarts of the server process                *)
(*    SpecVerify   verify_image_file on every folder and probe             *)
(*    SpecDurable  SpecVerify with restarts of the server process          *)
(*    SpecChange   verify_image_file while the reference sources change    *)
(*    SpecMatch    the matching stage on drawn embeddings                  *)
(*    SpecS3       POST /api/verify and POST /api/register                 *)
(*    SpecConc     get_ref_embeddings called by several threads            *)
(*    SpecSession  POST /login, GET /logout, POST /verify                  *)
(***************************************************************************)
EXTENDS Integers, Sequences, FiniteSets, TLC

\* ------------------------------------------------------------------ bounds
NSrc == 2
MaxClock == 2
MaxCalls == 3
MaxTmp == 2
MaxRequests == 3
NThreads == 2
NClients == 2

\* ------------------------------------------------------- program constants
VERIFICATION_MODEL == "ArcFace"
DETECTOR_BACKENDS == <<"retinaface", "mtcnn", "opencv">>
DISTANCE_THRESHOLDS == [m \in {"ArcFace", "Facenet", "VGG-Face"} |-> IF m = "ArcFace" THEN 680 ELSE 400]
IMAGE_EXTENSIONS == {".jpg", ".jpeg", ".png", ".bmp", ".webp"}
EMBEDDINGS_CACHE_FILE == ".face_embeddings.pkl"

NB == Len(DETECTOR_BACKENDS)

\* The folder users/<name> of the session flow; temporary directories
\* face_refs_* of the S3 flow are numbered from 1.
UserFolder == 0
Threads == 1..NThreads
Clients == 1..NClients
TmpDirs == 1..MaxTmp

Names == 0..NSrc
Suffix(name) == IF name = 0 THEN ".txt" ELSE ".jpg"

\* model_name arguments callers pass; "" stands for None (both are falsy).
ModelArgs == {"", "ArcFace", "Facenet"}
Models == {"ArcFace", "Facenet"}

\* ----------------------------------------------------------------- vectors
V10 == <<1, 0>>
V01 == <<0, 1>>
V34 == <<3, 4>>
V43 == <<4, 3>>
V00 == <<0, 0>>

\* -------------------------------------------------- extraction outcomes
Faces(embs) == [kind |-> "faces", msg |-> {}, embs |-> embs]
Raises(msg) == [kind |-> "error", msg |-> msg, embs |-> <<>>]
\* str(e).lower() of a raised exception, as the set of phrases it contains.
MsgNoFace == {"face could not be detected"}
MsgNoDetected == {"detected", "no "}
MsgOther == {}
MsgDetectedOnly == {"detected"}

\* What the image content of a reference file makes each backend do.
RefProfiles == <<
    <<Faces(<<V10>>), Faces(<<V01>>), Faces(<<V01>>)>>,
    <<Raises(MsgOther), Faces(<<V34, V01>>), Faces(<<V10>>)>>,
    <<Raises(MsgNoFace), Raises(MsgOther), Raises(MsgNoFace)>>,
    <<Faces(<<>>), Faces(<<V10>>), Faces(<<V10>>)>> >>
NProf == Len(RefProfiles)

ProbeOutcomes == {Raises(MsgNoFace), Raises(MsgNoDetected), Raises(MsgDetectedOnly),
                  Faces(<<>>), Faces(<<V43, V01>>)}
ProbeProfiles == [1..NB -> ProbeOutcomes]

NoFile == [mtime |-> 0, prof |-> 0]

\* --------------------------------------------------------- face_utils.py
_get_reference_image_paths_rec(kind, files, n) ==
    LET RECURSIVE walk(_)
        walk(i) == IF i > n THEN <<>>
                   ELSE IF files[i].mtime > 0 /\ Suffix(i) \in IMAGE_EXTENSIONS
                             /\ Suffix(i) # EMBEDDINGS_CACHE_FILE
                        THEN <<i>> \o walk(i + 1)
                        ELSE walk(i + 1)
    IN  IF kind # "dir" THEN <<>> ELSE walk(0)

\* sorted(user_folder.iterdir()) filtered by suffix; nothing when the folder
\* does not exist or is not a directory.
_get_reference_image_paths(kind, files) == _get_reference_image_paths_rec(kind, files, NSrc)

_is_no_face_error(msg) ==
    \/ "face could not be detected" \in msg
    \/ "no face" \in msg
    \/ ("detected" \in msg /\ "no " \in msg)

Dot(a, b) == a[1] * b[1] + a[2] * b[2]
Norm(a) == CHOOSE r \in 0..(Dot(a, a)) : r * r = Dot(a, a)

\* A distance that takes a zero-norm vector for identical to everything, used
\* to show that the return of lines 60-61 decides C30.
_cosine_distance_ZeroIsNear(a, b) ==
    LET n == Norm(a) * Norm(b)
    IN  IF n = 0 THEN 0 ELSE 1000 - ((1000 * Dot(a, b)) \div n)

\* 1 - a.b/(|a||b|) in thousandths; the vectors of the model have integer
\* norms and quotients that are exact in thousandths.
_cosine_distance(a, b) ==
    LET n == Norm(a) * Norm(b)
    IN  IF n = 0 THEN 1000 ELSE 1000 - ((1000 * Dot(a, b)) \div n)

\* A threshold lookup whose default is the ArcFace value, used to show that
\* the default of line 66 decides C14.
_get_threshold_ArcFaceDefault(model_name) ==
    IF model_name \in DOMAIN DISTANCE_THRESHOLDS
    THEN DISTANCE_THRESHOLDS[model_name]
    ELSE DISTANCE_THRESHOLDS["ArcFace"]

_get_threshold(model_name) ==
    IF model_name \in DOMAIN DISTANCE_THRESHOLDS
    THEN DISTANCE_THRESHOLDS[model_name]
    ELSE DISTANCE_THRESHOLDS["Facenet"]

\* DeepFace.represent on the file as it is now; a file that is gone raises.
_extract_embedding(file, b) ==
    IF file.mtime = 0 THEN Raises(MsgOther) ELSE RefProfiles[file.prof][b]

Pair(emb, rep, path, ver) == [emb |-> emb, rep |-> rep, path |-> path, ver |-> ver]
AsArray(pairs) == [i \in 1..Len(pairs) |-> [pairs[i] EXCEPT !.rep = "ndarray"]]
ToList(pairs) == [i \in 1..Len(pairs) |-> [pairs[i] EXCEPT !.rep = "list"]]

\* An inner loop that keeps only the first embedding a backend returns, used
\* to show that the loop of lines 103-104 decides C22.
RECURSIVE BuildOne_FirstFace(_, _, _)
BuildOne_FirstFace(file, path, b) ==
    IF b > NB THEN [pairs |-> <<>>, tried |-> <<>>]
    ELSE LET o == _extract_embedding(file, b)
         IN  IF o.kind = "faces"
             THEN [pairs |-> IF o.embs = <<>> THEN <<>>
                             ELSE <<Pair(o.embs[1], "ndarray", path, file.mtime)>>,
                   tried |-> <<b>>]
             ELSE LET r == BuildOne_FirstFace(file, path, b + 1)
                  IN  [pairs |-> r.pairs, tried |-> <<b>> \o r.tried]

\* The inner loop of _build_ref_embeddings for one path: the pairs it
\* appends and the backends it calls.
RECURSIVE BuildOne(_, _, _)
BuildOne(file, path, b) ==
    IF b > NB THEN [pairs |-> <<>>, tried |-> <<>>]
    ELSE LET o == _extract_embedding(file, b)
         IN  IF o.kind = "faces"
             THEN [pairs |-> [i \in 1..Len(o.embs) |-> Pair(o.embs[i], "ndarray", path, file.mtime)],
                   tried |-> <<b>>]
             ELSE LET r == BuildOne(file, path, b + 1)
                  IN  [pairs |-> r.pairs, tried |-> <<b>> \o r.tried]

\* _build_ref_embeddings run in one piece over the files as they are.
RECURSIVE BuildFrom(_, _, _, _)
BuildFrom(folder, files, paths, i) ==
    IF i > Len(paths) THEN [result |-> <<>>, log |-> <<>>]
    ELSE LET one == BuildOne(files[paths[i]], <<folder, paths[i]>>, 1)
             rest == BuildFrom(folder, files, paths, i + 1)
         IN  [result |-> one.pairs \o rest.result,
              log |-> [k \in 1..Len(one.tried) |-> <<paths[i], one.tried[k]>>] \o rest.log]

_build_ref_embeddings(folder, kind, files) ==
    BuildFrom(folder, files, _get_reference_image_paths(kind, files), 1)

\* A snapshot that records the file names only, used to show that the
\* modification times in the snapshot decide C4.
_folder_mtimes_NamesOnly(folder, kind, files) ==
    LET paths == _get_reference_image_paths(kind, files)
    IN  {<<(<<folder, paths[i]>>), 0>> : i \in 1..Len(paths)}

_folder_mtimes(folder, kind, files) ==
    LET paths == _get_reference_image_paths(kind, files)
    IN  {<<(<<folder, paths[i]>>), files[paths[i]].mtime>> : i \in 1..Len(paths)}

NoBlob == [exists |-> FALSE, corrupt |-> FALSE, model_name |-> "", mtimes |-> {}, embeddings |-> <<>>]
NoEntry == [embeddings |-> <<>>, mtimes |-> {}]

\* An in-memory check that does not compare snapshots, used to show that the
\* comparison of line 149 decides C2.
MemEntryValid_AnySnapshot(entry, current_mtimes) ==
    entry.embeddings # <<>>

\* line 149: the in-memory entry is served
MemEntryValid(entry, current_mtimes) ==
    entry.mtimes = current_mtimes /\ entry.embeddings # <<>>

\* A durable check that takes the payload although the read raised, used to
\* show that the except clause of lines 164-165 decides C18.
DiskBlobAccepted_ReadRaised(blob, model_name, current_mtimes, readOk) ==
    /\ blob.exists
    /\ blob.model_name = model_name
    /\ blob.mtimes = current_mtimes
    /\ blob.embeddings # <<>>

\* A durable check that does not compare the model name, used to show that
\* the comparison of line 158 decides C5.
DiskBlobAccepted_AnyModel(blob, model_name, current_mtimes, readOk) ==
    /\ blob.exists
    /\ readOk /\ ~blob.corrupt
    /\ blob.mtimes = current_mtimes
    /\ blob.embeddings # <<>>

\* lines 154-160: the pickle is there, loads, and is accepted
DiskBlobAccepted(blob, model_name, current_mtimes, readOk) ==
    /\ blob.exists
    /\ readOk /\ ~blob.corrupt
    /\ blob.model_name = model_name
    /\ blob.mtimes = current_mtimes
    /\ blob.embeddings # <<>>

Put(cache, key, entry) ==
    [k \in DOMAIN cache \cup {key} |-> IF k = key THEN entry ELSE cache[k]]

\* _load_cached_embeddings: hit = FALSE is the None return.
_load_cached_embeddings(cache, blob, current_mtimes, key, model_name, use_disk_cache, readOk) ==
    LET miss(read) == [hit |-> FALSE, embs |-> <<>>, cache |-> cache, src |-> "build",
                       diskRead |-> read, served |-> {}]
    IN  IF current_mtimes = {} THEN miss(FALSE)
        ELSE IF key \in DOMAIN cache /\ MemEntryValid(cache[key], current_mtimes)
        THEN [hit |-> TRUE, embs |-> cache[key].embeddings, cache |-> cache, src |-> "mem",
              diskRead |-> FALSE, served |-> cache[key].mtimes]
        ELSE IF use_disk_cache /\ blob.exists
        THEN IF DiskBlobAccepted(blob, model_name, current_mtimes, readOk)
             THEN [hit |-> TRUE, embs |-> AsArray(blob.embeddings),
                   cache |-> Put(cache, key, [embeddings |-> AsArray(blob.embeddings),
                                              mtimes |-> current_mtimes]),
                   src |-> "disk", diskRead |-> TRUE, served |-> blob.mtimes]
             ELSE miss(TRUE)
        ELSE miss(FALSE)

\* A durable write that keeps the snapshot of the file it replaces, used to
\* show that the payload written at lines 184-191 decides C6.
SaveBlob_KeepSnapshot(blob, current_mtimes, model_name, embeddings, use_disk_cache, wr) ==
    IF use_disk_cache /\ embeddings # <<>> /\ wr = "ok"
    THEN [exists |-> TRUE, corrupt |-> FALSE, model_name |-> model_name,
          mtimes |-> blob.mtimes, embeddings |-> ToList(embeddings)]
    ELSE blob

\* lines 180-193: what the pickle file holds after the write; wr is what the
\* file system lets the write do: "ok", "openfail" (open raises, the file is
\* left as it was) or "partial" (truncated by open, the dump raises).
SaveBlob(blob, current_mtimes, model_name, embeddings, use_disk_cache, wr) ==
    IF use_disk_cache /\ embeddings # <<>>
    THEN IF wr = "ok"
         THEN [exists |-> TRUE, corrupt |-> FALSE, model_name |-> model_name,
               mtimes |-> current_mtimes, embeddings |-> ToList(embeddings)]
         ELSE IF wr = "partial"
         THEN [NoBlob EXCEPT !.exists = TRUE, !.corrupt = TRUE]
         ELSE blob
    ELSE blob

\* An in-memory store that drops the snapshot, used to show that the entry
\* stored at lines 176-178 decides C1.
SaveEntry_NoSnapshot(current_mtimes, embeddings) ==
    [embeddings |-> embeddings, mtimes |-> {}]

\* lines 176-178: the entry stored in memory
SaveEntry(current_mtimes, embeddings) ==
    [embeddings |-> embeddings, mtimes |-> current_mtimes]

_save_cached_embeddings(cache, blob, current_mtimes, key, model_name, embeddings, use_disk_cache, wr) ==
    [cache |-> Put(cache, key, SaveEntry(current_mtimes, embeddings)),
     blob |-> SaveBlob(blob, current_mtimes, model_name, embeddings, use_disk_cache, wr)]

\* A probe loop that answers "no face" at the first backend that raises,
\* whatever it raises, used to show that the continue of line 266 decides C19.
RECURSIVE ProbeLoop_StopOnFailure(_, _)
ProbeLoop_StopOnFailure(prof, b) ==
    IF b > NB THEN [live |-> <<>>, stopped |-> FALSE, log |-> <<>>]
    ELSE LET o == prof[b]
         IN  IF o.kind = "faces" /\ o.embs # <<>>
             THEN [live |-> <<o.embs[1]>>, stopped |-> FALSE, log |-> <<[b |-> b, kind |-> "faces"]>>]
             ELSE IF o.kind = "error"
             THEN [live |-> <<>>, stopped |-> TRUE, log |-> <<[b |-> b, kind |-> "noface"]>>]
             ELSE LET r == ProbeLoop_StopOnFailure(prof, b + 1)
                  IN  [live |-> r.live, stopped |-> r.stopped,
                       log |-> <<[b |-> b, kind |-> "empty"]>> \o r.log]

\* A probe loop that gives up at the first backend that returns no
\* embedding, used to show that the fall-through of line 260 decides C11.
RECURSIVE ProbeLoop_StopOnEmpty(_, _)
ProbeLoop_StopOnEmpty(prof, b) ==
    IF b > NB THEN [live |-> <<>>, stopped |-> FALSE, log |-> <<>>]
    ELSE LET o == prof[b]
         IN  IF o.kind = "faces"
             THEN [live |-> IF o.embs = <<>> THEN <<>> ELSE <<o.embs[1]>>, stopped |-> FALSE,
                   log |-> <<[b |-> b, kind |-> IF o.embs = <<>> THEN "empty" ELSE "faces"]>>]
             ELSE IF _is_no_face_error(o.msg)
             THEN [live |-> <<>>, stopped |-> TRUE, log |-> <<[b |-> b, kind |-> "noface"]>>]
             ELSE LET r == ProbeLoop_StopOnEmpty(prof, b + 1)
                  IN  [live |-> r.live, stopped |-> r.stopped,
                       log |-> <<[b |-> b, kind |-> "other"]>> \o r.log]

\* A probe loop that goes on to the next backend after a no-face failure,
\* used to show that the return of lines 264-265 decides C10.
RECURSIVE ProbeLoop_Continue(_, _)
ProbeLoop_Continue(prof, b) ==
    IF b > NB THEN [live |-> <<>>, stopped |-> FALSE, log |-> <<>>]
    ELSE LET o == prof[b]
         IN  IF o.kind = "faces" /\ o.embs # <<>>
             THEN [live |-> <<o.embs[1]>>, stopped |-> FALSE, log |-> <<[b |-> b, kind |-> "faces"]>>]
             ELSE LET r == ProbeLoop_Continue(prof, b + 1)
                  IN  [live |-> r.live, stopped |-> r.stopped,
                       log |-> <<[b |-> b,
                                  kind |-> IF o.kind = "faces" THEN "empty"
                                           ELSE IF _is_no_face_error(o.msg) THEN "noface"
                                           ELSE "other"]>> \o r.log]

\* A probe loop that keeps the last embedding the backend returns, used to
\* show that embs[0] of line 261 decides C25.
RECURSIVE ProbeLoop_LastFace(_, _)
ProbeLoop_LastFace(prof, b) ==
    IF b > NB THEN [live |-> <<>>, stopped |-> FALSE, log |-> <<>>]
    ELSE LET o == prof[b]
         IN  IF o.kind = "faces" /\ o.embs # <<>>
             THEN [live |-> <<o.embs[Len(o.embs)]>>, stopped |-> FALSE,
                   log |-> <<[b |-> b, kind |-> "faces"]>>]
             ELSE IF o.kind = "error" /\ _is_no_face_error(o.msg)
             THEN [live |-> <<>>, stopped |-> TRUE, log |-> <<[b |-> b, kind |-> "noface"]>>]
             ELSE LET r == ProbeLoop_LastFace(prof, b + 1)
                  IN  [live |-> r.live, stopped |-> r.stopped,
                       log |-> <<[b |-> b, kind |-> IF o.kind = "faces" THEN "empty" ELSE "other"]>> \o r.log]

\* lines 255-269: the probe's backends in order.  live is the embedding kept,
\* stopped tells that a no-face failure ended the loop, log lists the backends
\* invoked with what each did.
RECURSIVE ProbeLoop(_, _)
ProbeLoop(prof, b) ==
    IF b > NB THEN [live |-> <<>>, stopped |-> FALSE, log |-> <<>>]
    ELSE LET o == prof[b]
         IN  IF o.kind = "faces" /\ o.embs # <<>>
             THEN [live |-> <<o.embs[1]>>, stopped |-> FALSE, log |-> <<[b |-> b, kind |-> "faces"]>>]
             ELSE IF o.kind = "error" /\ _is_no_face_error(o.msg)
             THEN [live |-> <<>>, stopped |-> TRUE, log |-> <<[b |-> b, kind |-> "noface"]>>]
             ELSE LET r == ProbeLoop(prof, b + 1)
                  IN  [live |-> r.live, stopped |-> r.stopped,
                       log |-> <<[b |-> b, kind |-> IF o.kind = "faces" THEN "empty" ELSE "other"]>> \o r.log]

MsgNotFound == "Image file not found."
MsgNoRefs == "No reference face images found for this user. Add photos to the user folder."
MsgNoFaceDetected == "No face detected in the captured image. Try facing the camera more directly, or ensure good lighting."
MsgVerified == "Face verified (distance: {dist:.3f})"
MsgNoMatch == "Face does not match the registered user."

Ret(verified, msg, dist) == [verified |-> verified, msg |-> msg, dist |-> dist]
NoRet == Ret(FALSE, "", 0)

\* A comparison that reports the last reference within the threshold instead
\* of the first, used to show that the early return of line 275 decides C13.
RECURSIVE Match_Last(_, _, _, _)
Match_Last(live, ref_embeddings, threshold, i) ==
    IF i > Len(ref_embeddings) THEN Ret(FALSE, MsgNoMatch, 0)
    ELSE LET dist == _cosine_distance(live, ref_embeddings[i].emb)
             rest == Match_Last(live, ref_embeddings, threshold, i + 1)
         IN  IF rest.verified THEN rest
             ELSE IF dist <= threshold THEN Ret(TRUE, MsgVerified, dist)
             ELSE rest

\* lines 272-277: the first reference within the threshold decides.
RECURSIVE Match(_, _, _, _)
Match(live, ref_embeddings, threshold, i) ==
    IF i > Len(ref_embeddings) THEN Ret(FALSE, MsgNoMatch, 0)
    ELSE LET dist == _cosine_distance(live, ref_embeddings[i].emb)
         IN  IF dist <= threshold THEN Ret(TRUE, MsgVerified, dist)
             ELSE Match(live, ref_embeddings, threshold, i + 1)

\* A continuation that goes on to the probe with an empty reference list,
\* used to show that the return of lines 252-253 decides C21.
VerifyTail_NoEmptyCheck(ref_embeddings, model, probe) ==
    LET p == ProbeLoop(probe, 1)
    IN  IF p.live = <<>>
        THEN [ret |-> Ret(FALSE, MsgNoFaceDetected, 0), probeLog |-> p.log, stages |-> <<"probe">>]
        ELSE [ret |-> Match(p.live[1], ref_embeddings, _get_threshold(model), 1),
              probeLog |-> p.log, stages |-> <<"probe", "match">>]

\* lines 252-277: verify_image_file once the reference embeddings are there.
VerifyTail(ref_embeddings, model, probe) ==
    IF ref_embeddings = <<>>
    THEN [ret |-> Ret(FALSE, MsgNoRefs, 0), probeLog |-> <<>>, stages |-> <<>>]
    ELSE LET p == ProbeLoop(probe, 1)
         IN  IF p.live = <<>>
             THEN [ret |-> Ret(FALSE, MsgNoFaceDetected, 0), probeLog |-> p.log, stages |-> <<"probe">>]
             ELSE [ret |-> Match(p.live[1], ref_embeddings, _get_threshold(model), 1),
                   probeLog |-> p.log, stages |-> <<"probe", "match">>]


\* get_ref_embeddings run in one piece (lines 206-212).
get_ref_embeddings(cache, blob, folder, files, model, use_disk_cache, readOk, wr) ==
    LET cur == _folder_mtimes(folder, "dir", files)
        key == <<folder, model>>
        ld == _load_cached_embeddings(cache, blob, cur, key, model, use_disk_cache, readOk)
        built == _build_ref_embeddings(folder, "dir", files)
        sv == _save_cached_embeddings(cache, blob, cur, key, model, built.result, use_disk_cache, wr)
    IN  IF ld.hit
        THEN [refs |-> AsArray(ld.embs), cache |-> ld.cache, blob |-> blob, src |-> ld.src, log |-> <<>>]
        ELSE [refs |-> built.result, cache |-> sv.cache, blob |-> sv.blob, src |-> "build",
              log |-> built.log]

\* verify_image_file run in one piece on an existing probe, with
\* use_embedding_cache=True (lines 232-277).
verify_image_file(cache, blob, folder, files, model, readOk, wr, probe) ==
    LET got == get_ref_embeddings(cache, blob, folder, files, model, TRUE, readOk, wr)
    IN  IF _get_reference_image_paths("dir", files) = <<>>
        THEN [ret |-> Ret(FALSE, MsgNoRefs, 0), cache |-> cache, blob |-> blob, src |-> "none",
              log |-> <<>>]
        ELSE [ret |-> VerifyTail(got.refs, model, probe).ret, cache |-> got.cache,
              blob |-> got.blob, src |-> got.src, log |-> got.log]

\* -------------------------------------------------------------------- state
VARIABLES
    clock,              \* the file system's time: the mtime of the latest write
    fkind,              \* what is at the user folder's path: "dir", "missing", "file"
    fs,                 \* the files of the user folder: name -> [mtime, prof], mtime 0 = no file
    diskCache,          \* the .face_embeddings.pkl of the user folder
    _embedding_cache,   \* face_utils._embedding_cache: (folder, model) -> entry
    call,               \* the library call in progress or last finished
    ncalls,             \* calls made so far
    hist,               \* history: what the last finished lookup per model returned
    s3objs,             \* the user's reference images in the bucket: name -> prof, 0 = none
    s3cache,            \* users/<id>/.face_embeddings.pkl in the bucket
    tmpdirs,            \* temporary directories that exist on the server
    req,                \* the last HTTP request handled
    nreq,               \* requests handled so far
    threads,            \* get_ref_embeddings calls that run at the same time
    pickleBody,         \* history: the model whose rebuild wrote the embeddings the
                        \* pickle file holds, "" when the file holds none
    session             \* request.session of each browser

vars == <<clock, fkind, fs, diskCache, _embedding_cache, call, ncalls, hist,
          s3objs, s3cache, tmpdirs, req, nreq, threads, pickleBody, session>>
s3vars == <<s3objs, s3cache, tmpdirs, req, nreq>>
auxvars == <<threads, pickleBody, session>>

Key(folder, model) == <<folder, model>>
ModelOf(model_name) == IF model_name = "" THEN VERIFICATION_MODEL ELSE model_name
Range(seq) == {seq[i] : i \in 1..Len(seq)}

\* call.probe keeps what each backend that was invoked on the probe did; the
\* backends that were not invoked keep this entry.
NoProbe == [b \in 1..NB |-> Raises(MsgOther)]

IdleCall ==
    [pc |-> "idle", op |-> "none", model |-> VERIFICATION_MODEL, use_disk_cache |-> FALSE,
     use_embedding_cache |-> FALSE, probe_exists |-> FALSE, viaGet |-> FALSE,
     current_mtimes |-> {}, ref_paths |-> <<>>, idx |-> 1, result |-> <<>>,
     refs |-> <<>>, ret |-> NoRet, saved_mtimes |-> {}, wr |-> "none",
     src |-> "none", diskRead |-> FALSE, readOk |-> TRUE, served |-> {}, listed |-> FALSE,
     refLog |-> <<>>, probeLog |-> <<>>, stages |-> <<>>, probe |-> NoProbe,
     disturbed |-> FALSE, changedAfter |-> FALSE, again |-> FALSE,
     preOk |-> FALSE, preRes |-> <<>>, preSv |-> 2, preInv |-> FALSE,
     preCache |-> <<>>, preBlob |-> NoBlob]

NoReq == [kind |-> "none", status |-> 0, verified |-> FALSE, dir |-> 0, src |-> "none",
          refLog |-> <<>>, fresh |-> FALSE, got |-> FALSE, uploaded |-> FALSE]

\* A thread that is not inside get_ref_embeddings.
IdleThread ==
    [pc |-> "idle", model |-> VERIFICATION_MODEL, use_disk_cache |-> FALSE,
     refs |-> <<>>, src |-> "none", mixed |-> FALSE]

\* request.session of a browser that has no session cookie. last is history:
\* what changed the session last, "login" or "logout".
NoSession == [username |-> "", display_name |-> "", last |-> "none"]

AuxInit ==
    /\ threads = [t \in Threads |-> IdleThread]
    /\ pickleBody = ""
    /\ session = [c \in Clients |-> NoSession]

Init ==
    /\ clock = 0
    /\ fkind = "dir"
    /\ fs = [n \in Names |-> NoFile]
    /\ diskCache = NoBlob
    /\ _embedding_cache = <<>>
    /\ call = IdleCall
    /\ ncalls = 0
    /\ hist = [prevOk |-> [m \in Models |-> FALSE], prevRes |-> [m \in Models |-> <<>>],
               prevInv |-> [m \in Models |-> FALSE], sv |-> [m \in Models |-> 2]]
    /\ s3objs = [n \in 1..NSrc |-> 0]
    /\ s3cache = NoBlob
    /\ tmpdirs = {}
    /\ req = NoReq
    /\ nreq = 0
    /\ AuxInit

\* The reference sources the folder holds now with their modification times,
\* read off the file system itself.
SourceTimes(kind, files) ==
    IF kind # "dir" THEN {}
    ELSE {<<(<<UserFolder, n>>), files[n].mtime>> :
              n \in {x \in Names : files[x].mtime > 0 /\ Suffix(x) \in IMAGE_EXTENSIONS}}

\* The entry of (user folder, m) has the snapshot the folder has now.
SnapshotValid(cache, kind, files, m) ==
    /\ Key(UserFolder, m) \in DOMAIN cache
    /\ cache[Key(UserFolder, m)].mtimes = SourceTimes(kind, files)

Min(a, b) == IF a < b THEN a ELSE b

\* sv[m]: reference-source changes since (user folder, m) last had an entry
\* with the current snapshot; 2 stands for "two or more, or never".
SvAfter(sv, changed, cache, kind, files) ==
    [m \in Models |-> IF SnapshotValid(cache, kind, files, m) THEN 0
                      ELSE IF changed THEN Min(sv[m] + 1, 2) ELSE sv[m]]

\* ----------------------------------------------- the reference sources change
EnvChanged(kind, files) ==
    /\ call' = IF call.pc = "build" THEN [call EXCEPT !.disturbed = TRUE]
               ELSE IF call.pc = "done" THEN [call EXCEPT !.changedAfter = TRUE]
               ELSE call
    /\ hist' = [prevOk |-> [m \in Models |-> FALSE], prevRes |-> [m \in Models |-> <<>>],
                prevInv |-> [m \in Models |-> FALSE],
                sv |-> SvAfter(hist.sv, TRUE, _embedding_cache, kind, files)]
    /\ UNCHANGED <<_embedding_cache, ncalls, s3vars, auxvars>>

\* A file is written into the user folder: a new reference image, a changed
\* one, or (name 0) a file that is no image.
WriteSource(n, prof) ==
    /\ fkind = "dir"
    /\ clock < MaxClock
    /\ clock' = clock + 1
    /\ fs' = [fs EXCEPT ![n] = [mtime |-> clock + 1, prof |-> prof]]
    /\ UNCHANGED <<fkind, diskCache>>
    /\ EnvChanged(fkind, fs')

RemoveSource(n) ==
    /\ fkind = "dir"
    /\ fs[n].mtime > 0
    /\ fs' = [fs EXCEPT ![n] = NoFile]
    /\ UNCHANGED <<clock, fkind, diskCache>>
    /\ EnvChanged(fkind, fs')

\* --------------------------------------------------------- the library calls
StartCall(op, model, use_disk_cache, use_embedding_cache, probe_exists, viaGet) ==
    [IdleCall EXCEPT !.op = op, !.model = model, !.use_disk_cache = use_disk_cache,
                     !.use_embedding_cache = use_embedding_cache,
                     !.probe_exists = probe_exists, !.viaGet = viaGet,
                     !.preOk = viaGet /\ hist.prevOk[model],
                     !.preRes = IF viaGet THEN hist.prevRes[model] ELSE <<>>,
                     !.preSv = IF viaGet THEN hist.sv[model] ELSE 2,
                     !.preInv = viaGet /\ hist.prevInv[model],
                     !.preCache = _embedding_cache, !.preBlob = diskCache,
                     !.again = /\ call.pc = "done" /\ ~call.changedAfter /\ ~call.disturbed
                               /\ call.op = op /\ call.model = model
                               /\ call.use_disk_cache = use_disk_cache
                               /\ call.use_embedding_cache = use_embedding_cache
                               /\ call.probe_exists = probe_exists]

\* The call returns: get_ref_embeddings returns refs; verify_image_file goes
\* on from line 252 with them.
Finish(c, refs, probe) ==
    IF c.op = "get"
    THEN [c EXCEPT !.pc = "done", !.refs = refs]
    ELSE LET tail == VerifyTail(refs, c.model, probe)
         IN  [c EXCEPT !.pc = "done", !.refs = refs, !.ret = tail.ret,
                       !.probeLog = tail.probeLog,
                       !.probe = [b \in 1..NB |-> IF b <= Len(tail.probeLog)
                                                   THEN probe[b] ELSE NoProbe[b]],
                       !.stages = <<"path", "refs">> \o tail.stages]

HistDone(c, refs, cache) ==
    [prevOk |-> [hist.prevOk EXCEPT ![c.model] = TRUE],
     prevRes |-> [hist.prevRes EXCEPT ![c.model] = refs],
     prevInv |-> [hist.prevInv EXCEPT ![c.model] = ~c.disturbed /\ c.preSv = 1],
     sv |-> SvAfter(hist.sv, FALSE, cache, fkind, fs)]

\* get_ref_embeddings up to line 209, or up to the listing of line 97 when
\* _load_cached_embeddings returns None.
Lookup(c, readOk, probes) ==
    LET cur == _folder_mtimes(UserFolder, fkind, fs)
        ld == _load_cached_embeddings(_embedding_cache, diskCache, cur,
                                      Key(UserFolder, c.model), c.model, c.use_disk_cache, readOk)
        c1 == [c EXCEPT !.current_mtimes = cur, !.src = ld.src, !.diskRead = ld.diskRead,
                        !.readOk = readOk, !.served = ld.served]
    IN  IF ld.hit
        THEN /\ _embedding_cache' = ld.cache
             /\ call' \in {Finish(c1, AsArray(ld.embs), probe) : probe \in probes}
             /\ hist' = HistDone(c1, AsArray(ld.embs), ld.cache)
        ELSE /\ _embedding_cache' = _embedding_cache
             /\ call' = [c1 EXCEPT !.pc = "build",
                                   !.ref_paths = _get_reference_image_paths(fkind, fs)]
             /\ hist' = hist

\* get_ref_embeddings(user_folder, model_name, use_disk_cache=...)
GetRefCall(model_name, use_disk_cache) ==
    /\ call.pc \in {"idle", "done"}
    /\ ncalls < MaxCalls
    /\ ncalls' = ncalls + 1
    /\ \E readOk \in (IF use_disk_cache /\ diskCache.exists THEN BOOLEAN ELSE {TRUE}) :
          Lookup(StartCall("get", ModelOf(model_name), use_disk_cache, TRUE, TRUE, TRUE),
                 readOk, {NoProbe})
    /\ UNCHANGED <<clock, fkind, fs, diskCache, s3vars, auxvars>>

\* A path check that lets every probe path through, used to show that the
\* return of lines 232-233 decides C8.
PathCheck_Always(probe_exists) == TRUE

\* A guard that never finds the reference list empty, used to show that the
\* return of lines 236-237 decides C9.
NoReferencePaths_Never(ref_paths) == FALSE

\* line 232
PathCheck(probe_exists) == probe_exists

\* line 236
NoReferencePaths(ref_paths) == ref_paths = <<>>

\* verify_image_file(image_path, user_folder, model_name, use_embedding_cache=...)
VerifyCall(probe_exists, model_name, use_embedding_cache, probes) ==
    /\ call.pc \in {"idle", "done"}
    /\ ncalls < MaxCalls
    /\ ncalls' = ncalls + 1
    /\ LET c0 == StartCall("verify", ModelOf(model_name), TRUE, use_embedding_cache,
                           probe_exists, FALSE)
           ref_paths == _get_reference_image_paths(fkind, fs)
           c1 == [c0 EXCEPT !.listed = TRUE, !.ref_paths = ref_paths]
       IN  IF ~PathCheck(probe_exists)
           THEN /\ call' = [c0 EXCEPT !.pc = "done", !.ret = Ret(FALSE, MsgNotFound, 0),
                                      !.stages = <<"path">>]
                /\ UNCHANGED <<_embedding_cache, hist>>
           ELSE IF NoReferencePaths(ref_paths)
           THEN /\ call' = [c1 EXCEPT !.pc = "done", !.ret = Ret(FALSE, MsgNoRefs, 0),
                                      !.stages = <<"path", "refs">>]
                /\ UNCHANGED <<_embedding_cache, hist>>
           ELSE IF use_embedding_cache
           THEN \E readOk \in (IF diskCache.exists THEN BOOLEAN ELSE {TRUE}) :
                    Lookup([c1 EXCEPT !.viaGet = TRUE, !.preOk = hist.prevOk[c1.model],
                                      !.preRes = hist.prevRes[c1.model],
                                      !.preSv = hist.sv[c1.model],
                                      !.preInv = hist.prevInv[c1.model]], readOk, probes)
           ELSE /\ call' = [c1 EXCEPT !.pc = "build", !.src = "build"]
                /\ UNCHANGED <<_embedding_cache, hist>>
    /\ UNCHANGED <<clock, fkind, fs, diskCache, s3vars, auxvars>>

\* One turn of the outer loop of _build_ref_embeddings (lines 99-107).
BuildStep ==
    /\ call.pc = "build"
    /\ call.idx <= Len(call.ref_paths)
    /\ LET name == call.ref_paths[call.idx]
           one == BuildOne(fs[name], <<UserFolder, name>>, 1)
       IN  call' = [call EXCEPT !.idx = call.idx + 1,
                                !.result = call.result \o one.pairs,
                                !.refLog = call.refLog \o
                                    [k \in 1..Len(one.tried) |-> <<name, one.tried[k]>>]]
    /\ UNCHANGED <<clock, fkind, fs, diskCache, _embedding_cache, ncalls, hist, s3vars, auxvars>>

\* get_ref_embeddings, lines 211-212: _save_cached_embeddings and the return.
SaveStep(probes) ==
    /\ call.pc = "build"
    /\ call.idx > Len(call.ref_paths)
    /\ call.viaGet
    /\ \E wr \in (IF ~(call.use_disk_cache /\ call.result # <<>>) THEN {"none"}
                  ELSE IF fkind = "dir" THEN {"ok", "openfail", "partial"} ELSE {"openfail"}) :
          LET cur == _folder_mtimes(UserFolder, fkind, fs)
              sv == _save_cached_embeddings(_embedding_cache, diskCache, cur,
                                            Key(UserFolder, call.model), call.model,
                                            call.result, call.use_disk_cache, wr)
              c1 == [call EXCEPT !.saved_mtimes = cur, !.wr = wr]
          IN  /\ _embedding_cache' = sv.cache
              /\ diskCache' = sv.blob
              /\ call' \in {Finish(c1, call.result, probe) : probe \in probes}
              /\ hist' = HistDone(c1, call.result, sv.cache)
    /\ UNCHANGED <<clock, fkind, fs, ncalls, s3vars, auxvars>>

\* An uncached verification that stores what it built the way
\* get_ref_embeddings does, used to show that C28 needs the else branch of
\* line 250 to stay clear of _save_cached_embeddings.
NoCacheFinish_Saves(probes) ==
    /\ call.pc = "build"
    /\ call.idx > Len(call.ref_paths)
    /\ ~call.viaGet
    /\ LET cur == _folder_mtimes(UserFolder, fkind, fs)
           sv == _save_cached_embeddings(_embedding_cache, diskCache, cur,
                                         Key(UserFolder, call.model), call.model,
                                         call.result, TRUE, "ok")
       IN  /\ _embedding_cache' = sv.cache
           /\ diskCache' = sv.blob
    /\ call' \in {Finish(call, call.result, probe) : probe \in probes}
    /\ UNCHANGED <<clock, fkind, fs, ncalls, hist, s3vars, auxvars>>

\* verify_image_file with use_embedding_cache=False, from line 252 on.
NoCacheFinish(probes) ==
    /\ call.pc = "build"
    /\ call.idx > Len(call.ref_paths)
    /\ ~call.viaGet
    /\ call' \in {Finish(call, call.result, probe) : probe \in probes}
    /\ UNCHANGED <<clock, fkind, fs, diskCache, _embedding_cache, ncalls, hist, s3vars, auxvars>>

\* The cache under changing reference sources: get_ref_embeddings called
\* again and again on the user folder while images come, change and go.
CoreProfs == {1, 3}

Next ==
    \/ \E n \in 1..NSrc, prof \in CoreProfs : WriteSource(n, prof)
    \/ \E n \in 1..NSrc : RemoveSource(n)
    \/ \E model_name \in ModelArgs, use_disk_cache \in BOOLEAN : GetRefCall(model_name, use_disk_cache)
    \/ BuildStep
    \/ SaveStep({NoProbe})

Spec == Init /\ [][Next]_vars

\* The server process is restarted between two calls: the module is imported
\* anew and _embedding_cache is the empty dict of line 116 again, while the
\* folder and its pickle stay.
Restart ==
    /\ call.pc \in {"idle", "done"}
    /\ _embedding_cache # <<>>
    /\ _embedding_cache' = <<>>
    /\ call' = IF call.pc = "done" THEN [call EXCEPT !.changedAfter = TRUE] ELSE call
    /\ hist' = [prevOk |-> [m \in Models |-> FALSE], prevRes |-> [m \in Models |-> <<>>],
                prevInv |-> [m \in Models |-> FALSE], sv |-> [m \in Models |-> 2]]
    /\ UNCHANGED <<clock, fkind, fs, diskCache, ncalls, s3vars, auxvars>>

NextRestart ==
    \/ \E n \in 1..NSrc, prof \in CoreProfs : WriteSource(n, prof)
    \/ \E n \in 1..NSrc : RemoveSource(n)
    \/ \E model_name \in ModelArgs, use_disk_cache \in BOOLEAN : GetRefCall(model_name, use_disk_cache)
    \/ BuildStep
    \/ SaveStep({NoProbe})
    \/ Restart

SpecRestart == Init /\ [][NextRestart]_vars

\* verify_image_file on every kind of user folder and every probe.
MaxVerifyCalls == 2

InitVerify ==
    /\ clock = 1
    /\ fkind \in {"dir", "missing", "file"}
    /\ fs \in [Names -> {NoFile} \cup {[mtime |-> 1, prof |-> p] : p \in 1..NProf}]
    /\ fs[0].prof \in {0, 1}
    /\ fkind # "dir" => fs = [n \in Names |-> NoFile]
    /\ diskCache = NoBlob
    /\ _embedding_cache = <<>>
    /\ call = IdleCall
    /\ ncalls = MaxCalls - MaxVerifyCalls
    /\ hist = [prevOk |-> [m \in Models |-> FALSE], prevRes |-> [m \in Models |-> <<>>],
               prevInv |-> [m \in Models |-> FALSE], sv |-> [m \in Models |-> 2]]
    /\ s3objs = [n \in 1..NSrc |-> 0]
    /\ s3cache = NoBlob
    /\ tmpdirs = {}
    /\ req = NoReq
    /\ nreq = 0
    /\ AuxInit

NextVerify ==
    \/ \E probe_exists \in BOOLEAN, model_name \in ModelArgs, use_embedding_cache \in BOOLEAN :
          VerifyCall(probe_exists, model_name, use_embedding_cache, ProbeProfiles)
    \/ BuildStep
    \/ SaveStep(ProbeProfiles)
    \/ NoCacheFinish(ProbeProfiles)

SpecVerify == InitVerify /\ [][NextVerify]_vars


\* verify_image_file over restarts of the server: the pickle a process wrote,
\* whole or cut short by a failed dump, is what the next process finds.
NextDurable ==
    \/ \E probe_exists \in BOOLEAN, model_name \in ModelArgs, use_embedding_cache \in BOOLEAN :
          VerifyCall(probe_exists, model_name, use_embedding_cache, ProbeProfiles)
    \/ BuildStep
    \/ SaveStep(ProbeProfiles)
    \/ NoCacheFinish(ProbeProfiles)
    \/ Restart

SpecDurable == InitVerify /\ [][NextDurable]_vars

\* ------------------------------------------------- the S3-backed endpoints
\* app.py, /api/register and /api/verify.  A request is handled in one step:
\* nothing else touches its temporary directory.  The one user's reference
\* images are objects named 1..NSrc; upload_reference_image names each new
\* object with a fresh uuid, so objects are added and never overwritten.
\* Every downloaded file gets the time of its download as its mtime.

\* list_user_reference_keys
list_user_reference_keys(objs) == {n \in DOMAIN objs : objs[n] # 0}

\* The files download_user_refs_to_temp_dir writes, at time t.
LocalFiles(objs, t) ==
    [n \in Names |-> IF n \in DOMAIN objs /\ objs[n] # 0
                     THEN [mtime |-> t, prof |-> objs[n]] ELSE NoFile]

\* The .face_embeddings.pkl of the temporary directory after the download:
\* the bucket's blob if there is one and its download does not fail.
DownloadedBlob(blob, blobDl) == IF blob.exists /\ blobDl THEN blob ELSE NoBlob

\* upload_embeddings_cache: nothing without a local file; a failed put is
\* swallowed.
upload_embeddings_cache(bucketBlob, localBlob, upOk) ==
    IF localBlob.exists /\ upOk THEN localBlob ELSE bucketBlob

\* Probes the endpoint model submits: a face that matches V10 references, and
\* an image with no face.
ApiProbes == {[b \in 1..NB |-> Faces(<<V43, V01>>)], [b \in 1..NB |-> Raises(MsgNoFace)]}

\* The bucket's blob was written from exactly the reference images the bucket
\* holds now (history: images are only ever added).
BlobCoversRefs(blob, objs) ==
    /\ blob.exists /\ ~blob.corrupt
    /\ blob.model_name = VERIFICATION_MODEL
    /\ {item[1][2] : item \in blob.mtimes} = list_user_reference_keys(objs)
    /\ Len(blob.embeddings) > 0

Request(kind, status, verified, d, src, refLog, fresh, got, uploaded) ==
    [kind |-> kind, status |-> status, verified |-> verified, dir |-> d, src |-> src,
     refLog |-> refLog, fresh |-> fresh, got |-> got, uploaded |-> uploaded]

\* POST /api/verify (lines 470-521), past the parameter checks.
\*   d       the name mkdtemp picks: any name no directory has
\*   dlOk    every reference image downloads
\*   blobDl  the blob, if the bucket has one, downloads
api_verify(d, dlOk, blobDl, readOk, wr, upOk, probe) ==
    /\ nreq < MaxRequests
    /\ d \in TmpDirs \ tmpdirs
    /\ LET keys == list_user_reference_keys(s3objs)
           t == clock + 1
           local == DownloadedBlob(s3cache, blobDl)
           v == verify_image_file(_embedding_cache, local, d, LocalFiles(s3objs, t),
                                  VERIFICATION_MODEL, readOk, wr, probe)
           fresh == BlobCoversRefs(s3cache, s3objs)
       IN  IF keys = {}
           THEN \* FileNotFoundError before mkdtemp: 404
                /\ req' = Request("verify", 404, FALSE, 0, "none", <<>>, fresh, FALSE, FALSE)
                /\ UNCHANGED <<clock, _embedding_cache, s3cache, tmpdirs>>
           ELSE IF ~dlOk
           THEN \* download_file raises inside download_user_refs_to_temp_dir:
                \* tmp_refs_dir is never assigned, the finally block removes nothing
                /\ req' = Request("verify", 500, FALSE, d, "none", <<>>, fresh, FALSE, FALSE)
                /\ tmpdirs' = tmpdirs \cup {d}
                /\ clock' = t
                /\ UNCHANGED <<_embedding_cache, s3cache>>
           ELSE /\ _embedding_cache' = v.cache
                /\ s3cache' = upload_embeddings_cache(s3cache, v.blob, upOk)
                /\ req' = Request("verify", 200, v.ret.verified, d, v.src, v.log, fresh,
                                  local.exists /\ readOk, v.blob.exists /\ upOk)
                /\ clock' = t
                /\ UNCHANGED tmpdirs
    /\ nreq' = nreq + 1
    /\ UNCHANGED <<fkind, fs, diskCache, call, ncalls, hist, s3objs, auxvars>>

\* A registration that answers 500 when the precompute block fails, used to
\* show that the inner except of lines 401-403 decides C29.
api_register_Strict(n, prof, putOk, d, dlOk, blobDl, readOk, wr, upOk) ==
    /\ nreq < MaxRequests
    /\ s3objs[n] = 0
    /\ d \in TmpDirs \ tmpdirs
    /\ LET objs == [s3objs EXCEPT ![n] = prof]
           t == clock + 1
           local == DownloadedBlob(s3cache, blobDl)
           g == get_ref_embeddings(_embedding_cache, local, d, LocalFiles(objs, t),
                                   VERIFICATION_MODEL, TRUE, readOk, wr)
       IN  IF ~putOk
           THEN /\ req' = Request("register", 500, FALSE, 0, "none", <<>>, FALSE, FALSE, FALSE)
                /\ UNCHANGED <<clock, _embedding_cache, s3objs, s3cache, tmpdirs>>
           ELSE IF ~dlOk
           THEN /\ s3objs' = objs
                /\ req' = Request("register", 500, FALSE, d, "none", <<>>, FALSE, FALSE, FALSE)
                /\ tmpdirs' = tmpdirs \cup {d}
                /\ clock' = t
                /\ UNCHANGED <<_embedding_cache, s3cache>>
           ELSE /\ s3objs' = objs
                /\ _embedding_cache' = g.cache
                /\ s3cache' = upload_embeddings_cache(s3cache, g.blob, upOk)
                /\ req' = Request("register", 200, FALSE, d, g.src, g.log, FALSE,
                                  local.exists /\ readOk, g.blob.exists /\ upOk)
                /\ clock' = t
                /\ UNCHANGED tmpdirs
    /\ nreq' = nreq + 1
    /\ UNCHANGED <<fkind, fs, diskCache, call, ncalls, hist, auxvars>>

\* POST /api/register (lines 380-417), past the parameter checks.
\*   n       the object the fresh uuid names
\*   putOk   put_object of the image succeeds
api_register(n, prof, putOk, d, dlOk, blobDl, readOk, wr, upOk) ==
    /\ nreq < MaxRequests
    /\ s3objs[n] = 0
    /\ d \in TmpDirs \ tmpdirs
    /\ LET objs == [s3objs EXCEPT ![n] = prof]
           t == clock + 1
           local == DownloadedBlob(s3cache, blobDl)
           g == get_ref_embeddings(_embedding_cache, local, d, LocalFiles(objs, t),
                                   VERIFICATION_MODEL, TRUE, readOk, wr)
       IN  IF ~putOk
           THEN \* upload_reference_image raises: 500
                /\ req' = Request("register", 500, FALSE, 0, "none", <<>>, FALSE, FALSE, FALSE)
                /\ UNCHANGED <<clock, _embedding_cache, s3objs, s3cache, tmpdirs>>
           ELSE IF ~dlOk
           THEN \* the precompute block fails before rmtree; the failure is swallowed
                /\ s3objs' = objs
                /\ req' = Request("register", 200, FALSE, d, "none", <<>>, FALSE, FALSE, FALSE)
                /\ tmpdirs' = tmpdirs \cup {d}
                /\ clock' = t
                /\ UNCHANGED <<_embedding_cache, s3cache>>
           ELSE /\ s3objs' = objs
                /\ _embedding_cache' = g.cache
                /\ s3cache' = upload_embeddings_cache(s3cache, g.blob, upOk)
                /\ req' = Request("register", 200, FALSE, d, g.src, g.log, FALSE,
                                  local.exists /\ readOk, g.blob.exists /\ upOk)
                /\ clock' = t
                /\ UNCHANGED tmpdirs
    /\ nreq' = nreq + 1
    /\ UNCHANGED <<fkind, fs, diskCache, call, ncalls, hist, auxvars>>

NextS3 ==
    \/ \E d \in TmpDirs, dlOk, blobDl, readOk, upOk \in BOOLEAN,
          wr \in {"ok", "openfail", "partial"}, probe \in ApiProbes :
          api_verify(d, dlOk, blobDl, readOk, wr, upOk, probe)
    \/ \E n \in 1..NSrc, prof \in CoreProfs, d \in TmpDirs,
          putOk, dlOk, blobDl, readOk, upOk \in BOOLEAN,
          wr \in {"ok", "openfail", "partial"} :
          api_register(n, prof, putOk, d, dlOk, blobDl, readOk, wr, upOk)

SpecS3 == Init /\ [][NextS3]_vars

\* ------------------------------------------------------ the matching stage
\* Lines 252-277 on their own: verify_image_file holds the reference
\* embeddings _build_ref_embeddings returned for one image with up to MaxRefs
\* faces, and extracts the probe.  The embeddings are drawn directly, for every
\* model name a caller can pass: two in the threshold table with different
\* values, one sharing a value, one the table does not hold.
MaxRefs == 3

V3m4 == <<3, -4>>
V24_7 == <<24, 7>>
RefVectors == {V10, V01, V3m4, V00}
ProbeVectors == {V43, V24_7, V10, V00}
MatchModels == {"ArcFace", "Facenet", "VGG-Face", "SFace"}
MatchProbes ==
    {[b \in 1..NB |-> Faces(<<v>>)] : v \in ProbeVectors}
        \cup {[b \in 1..NB |-> Faces(<<v, w>>)] : v \in ProbeVectors, w \in ProbeVectors}

RefSequences ==
    UNION {[1..n -> {Pair(v, "ndarray", <<UserFolder, 1>>, 1) : v \in RefVectors}] : n \in 1..MaxRefs}

InitMatch ==
    /\ clock = 1
    /\ fkind = "dir"
    /\ fs = [n \in Names |-> IF n = 1 THEN [mtime |-> 1, prof |-> 1] ELSE NoFile]
    /\ diskCache = NoBlob
    /\ _embedding_cache = <<>>
    /\ \E m \in MatchModels, refs \in RefSequences :
          call = [IdleCall EXCEPT !.pc = "build", !.op = "verify", !.model = m,
                                  !.use_disk_cache = TRUE, !.probe_exists = TRUE,
                                  !.listed = TRUE, !.ref_paths = <<1>>, !.idx = 2,
                                  !.result = refs, !.src = "build",
                                  !.refLog = <<(<<1, 1>>)>>]
    /\ ncalls = MaxCalls
    /\ hist = [prevOk |-> [m \in Models |-> FALSE], prevRes |-> [m \in Models |-> <<>>],
               prevInv |-> [m \in Models |-> FALSE], sv |-> [m \in Models |-> 2]]
    /\ s3objs = [n \in 1..NSrc |-> 0]
    /\ s3cache = NoBlob
    /\ tmpdirs = {}
    /\ req = NoReq
    /\ nreq = 0
    /\ AuxInit

NextMatch == NoCacheFinish(MatchProbes)

SpecMatch == InitMatch /\ [][NextMatch]_vars

\* ------------------------------------- get_ref_embeddings by several threads
\* get_ref_embeddings takes no lock, so the steps of calls made by different
\* threads interleave. The reference sources do not change here. The steps of
\* one call: the lookup (lines 207-209), the rebuild (line 210), the store in
\* memory (lines 176-178), open(cache_path, "wb") (line 183), and pickle.dump
\* (lines 184-191), which hands a large payload to the file in several writes:
\* the head with model_name and mtimes first, the embeddings after it. Every
\* writer has its own file offset, so each part of the file holds what the
\* last writer of that part put there.
MaxConcCalls == 3

\* The head and the embeddings of the file come from rebuilds for different
\* models.
Torn(blob, body) ==
    /\ blob.exists
    /\ blob.model_name # "" /\ body # ""
    /\ blob.model_name # body

\* What pickle.load makes of the file: a torn file may fail to load, or load
\* as the head of one writer with the embeddings of the other.
PickleViews(blob, body) ==
    IF Torn(blob, body)
    THEN {[blob EXCEPT !.corrupt = TRUE], [blob EXCEPT !.corrupt = FALSE]}
    ELSE {blob}

InitConc ==
    /\ clock = 1
    /\ fkind = "dir"
    /\ fs \in [Names -> {NoFile} \cup {[mtime |-> 1, prof |-> p] : p \in 1..NProf}]
    /\ fs[0] = NoFile
    /\ fs[1] # NoFile
    /\ diskCache = NoBlob
    /\ _embedding_cache = <<>>
    /\ call = IdleCall
    /\ ncalls = 0
    /\ hist = [prevOk |-> [m \in Models |-> FALSE], prevRes |-> [m \in Models |-> <<>>],
               prevInv |-> [m \in Models |-> FALSE], sv |-> [m \in Models |-> 2]]
    /\ s3objs = [n \in 1..NSrc |-> 0]
    /\ s3cache = NoBlob
    /\ tmpdirs = {}
    /\ req = NoReq
    /\ nreq = 0
    /\ AuxInit

\* lines 206-209: thread t enters get_ref_embeddings and looks the key up.
ConcLoad(t, model_name, use_disk_cache, readOk) ==
    /\ ncalls < MaxConcCalls
    /\ threads[t].pc \in {"idle", "done"}
    /\ ncalls' = ncalls + 1
    /\ \E view \in PickleViews(diskCache, pickleBody) :
          LET model == ModelOf(model_name)
              cur == _folder_mtimes(UserFolder, fkind, fs)
              ld == _load_cached_embeddings(_embedding_cache, view, cur,
                                            Key(UserFolder, model), model,
                                            use_disk_cache, readOk)
              me == [IdleThread EXCEPT !.model = model, !.use_disk_cache = use_disk_cache,
                                       !.src = ld.src]
          IN  /\ _embedding_cache' = ld.cache
              /\ threads' = [threads EXCEPT ![t] =
                    IF ld.hit
                    THEN [me EXCEPT !.pc = "done", !.refs = AsArray(ld.embs),
                                    !.mixed = (ld.src = "disk" /\ Torn(diskCache, pickleBody))]
                    ELSE [me EXCEPT !.pc = "build"]]
    /\ UNCHANGED <<clock, fkind, fs, diskCache, call, hist, s3vars, pickleBody, session>>

\* line 210: the rebuild of thread t returns.
ConcBuild(t) ==
    /\ threads[t].pc = "build"
    /\ threads' = [threads EXCEPT ![t].pc = "save",
                                  ![t].refs = _build_ref_embeddings(UserFolder, fkind, fs).result]
    /\ UNCHANGED <<clock, fkind, fs, diskCache, _embedding_cache, call, ncalls, hist, s3vars,
                   pickleBody, session>>

\* lines 176-180: thread t stores the entry in memory and decides whether to
\* write the file.
ConcSave(t) ==
    /\ threads[t].pc = "save"
    /\ _embedding_cache' = Put(_embedding_cache, Key(UserFolder, threads[t].model),
                               SaveEntry(_folder_mtimes(UserFolder, fkind, fs), threads[t].refs))
    /\ threads' = [threads EXCEPT ![t].pc =
                      IF threads[t].use_disk_cache /\ threads[t].refs # <<>>
                      THEN "open" ELSE "done"]
    /\ UNCHANGED <<clock, fkind, fs, diskCache, call, ncalls, hist, s3vars, pickleBody, session>>

\* line 183: open(cache_path, "wb") leaves an empty file.
ConcOpen(t) ==
    /\ threads[t].pc = "open"
    /\ diskCache' = [NoBlob EXCEPT !.exists = TRUE, !.corrupt = TRUE]
    /\ pickleBody' = ""
    /\ threads' = [threads EXCEPT ![t].pc = "dump"]
    /\ UNCHANGED <<clock, fkind, fs, _embedding_cache, call, ncalls, hist, s3vars, session>>

\* lines 184-191, first write: model_name and mtimes. The file loads once it
\* has a head and embeddings.
ConcDumpHead(t) ==
    /\ threads[t].pc = "dump"
    /\ diskCache' = [diskCache EXCEPT !.exists = TRUE,
                                      !.model_name = threads[t].model,
                                      !.mtimes = _folder_mtimes(UserFolder, fkind, fs),
                                      !.corrupt = (pickleBody = "")]
    /\ threads' = [threads EXCEPT ![t].pc = "dumpbody"]
    /\ UNCHANGED <<clock, fkind, fs, _embedding_cache, call, ncalls, hist, s3vars,
                   pickleBody, session>>

\* lines 184-191, last write: the embeddings; the dump returns.
ConcDumpBody(t) ==
    /\ threads[t].pc = "dumpbody"
    /\ diskCache' = [diskCache EXCEPT !.exists = TRUE,
                                      !.embeddings = ToList(threads[t].refs),
                                      !.corrupt = (diskCache.model_name = "")]
    /\ pickleBody' = threads[t].model
    /\ threads' = [threads EXCEPT ![t].pc = "done"]
    /\ UNCHANGED <<clock, fkind, fs, _embedding_cache, call, ncalls, hist, s3vars, session>>

NextConc ==
    \/ \E t \in Threads, model_name \in ModelArgs, use_disk_cache \in BOOLEAN, readOk \in BOOLEAN :
          ConcLoad(t, model_name, use_disk_cache, readOk)
    \/ \E t \in Threads : ConcBuild(t)
    \/ \E t \in Threads : ConcSave(t)
    \/ \E t \in Threads : ConcOpen(t)
    \/ \E t \in Threads : ConcDumpHead(t)
    \/ \E t \in Threads : ConcDumpBody(t)

SpecConc == InitConc /\ [][NextConc]_vars

\* ------------------------------------------------------ the session routes
\* POST /login, GET /logout and POST /verify of app.py. request.session is
\* kept by SessionMiddleware (lines 141-145) in a cookie of the browser; every
\* browser sends the cookie the last response gave it, so session[c] is what
\* the handlers find in request.session for browser c. The folder of alice is
\* the user folder of the model; the folders of the other users hold no
\* reference images.
MaxSessionRequests == 4

USERS == ("alice" :> "Alice") @@ ("bob" :> "Bob") @@ ("charlie" :> "Charlie")

\* The names typed into the login form, and username.strip().lower() of each.
LoginNames == {"alice", " Alice ", "BOB", "mallory", ""}
StripLower(raw) ==
    CASE raw = " Alice " -> "alice"
      [] raw = "BOB" -> "bob"
      [] OTHER -> raw

\* users/<username.strip().lower()>: the user folder of the model for alice,
\* folders numbered below it for the others.
get_user_folder(username) ==
    CASE StripLower(username) = "alice" -> UserFolder
      [] StripLower(username) = "bob" -> UserFolder - 1
      [] StripLower(username) = "charlie" -> UserFolder - 2
      [] OTHER -> UserFolder - 3

FolderFiles(folder) == IF folder = UserFolder THEN fs ELSE [n \in Names |-> NoFile]
FolderBlob(folder) == IF folder = UserFolder THEN diskCache ELSE NoBlob

\* A gate that lets every request through, used to show that the check of
\* lines 176-177 decides C20.
require_auth_Open(sess) == TRUE

\* lines 175-177: TRUE when require_auth returns the username, FALSE when it
\* raises the 401.
require_auth(sess) == sess.username # ""

\* The request handled last: ran tells that verify_image_file was called,
\* folder holds the folder it was called on, before is the session the
\* request came with.
Http(kind, client, status, known, ran, folder, verified, before) ==
    [kind |-> kind, client |-> client, status |-> status, known |-> known, ran |-> ran,
     folder |-> folder, verified |-> verified, before |-> before]
NoHttp == Http("none", 1, 0, FALSE, FALSE, {}, FALSE, NoSession)

InitSession ==
    /\ clock = 1
    /\ fkind = "dir"
    /\ fs \in {[n \in Names |-> NoFile],
               [n \in Names |-> IF n = 1 THEN [mtime |-> 1, prof |-> 1] ELSE NoFile]}
    /\ diskCache = NoBlob
    /\ _embedding_cache = <<>>
    /\ call = IdleCall
    /\ ncalls = 0
    /\ hist = [prevOk |-> [m \in Models |-> FALSE], prevRes |-> [m \in Models |-> <<>>],
               prevInv |-> [m \in Models |-> FALSE], sv |-> [m \in Models |-> 2]]
    /\ s3objs = [n \in 1..NSrc |-> 0]
    /\ s3cache = NoBlob
    /\ tmpdirs = {}
    /\ req = NoHttp
    /\ nreq = 0
    /\ AuxInit

\* POST /login (lines 195-203)
login_post(c, raw) ==
    /\ nreq < MaxSessionRequests
    /\ nreq' = nreq + 1
    /\ LET username == StripLower(raw)
       IN  IF username \in DOMAIN USERS
           THEN /\ session' = [session EXCEPT ![c] = [username |-> username,
                                                      display_name |-> USERS[username],
                                                      last |-> "login"]]
                /\ req' = Http("login", c, 303, TRUE, FALSE, {}, FALSE, session[c])
           ELSE /\ session' = session
                /\ req' = Http("login", c, 303, FALSE, FALSE, {}, FALSE, session[c])
    /\ UNCHANGED <<clock, fkind, fs, diskCache, _embedding_cache, call, ncalls, hist,
                   s3objs, s3cache, tmpdirs, threads, pickleBody>>

\* GET /logout (lines 206-210)
logout(c) ==
    /\ nreq < MaxSessionRequests
    /\ nreq' = nreq + 1
    /\ session' = [session EXCEPT ![c] = [NoSession EXCEPT !.last = "logout"]]
    /\ req' = Http("logout", c, 303, FALSE, FALSE, {}, FALSE, session[c])
    /\ UNCHANGED <<clock, fkind, fs, diskCache, _embedding_cache, call, ncalls, hist,
                   s3objs, s3cache, tmpdirs, threads, pickleBody>>

\* POST /verify (lines 231-308)
\*   hasImage  the body carries an image
verify(c, hasImage, readOk, wr, probe) ==
    /\ nreq < MaxSessionRequests
    /\ nreq' = nreq + 1
    /\ LET sess == session[c]
           user_folder == get_user_folder(sess.username)
           v == verify_image_file(_embedding_cache, FolderBlob(user_folder), user_folder,
                                  FolderFiles(user_folder), VERIFICATION_MODEL, readOk, wr, probe)
       IN  IF ~require_auth(sess)
           THEN /\ req' = Http("verify", c, 401, FALSE, FALSE, {}, FALSE, sess)
                /\ UNCHANGED <<_embedding_cache, diskCache>>
           ELSE IF ~hasImage
           THEN /\ req' = Http("verify", c, 400, FALSE, FALSE, {}, FALSE, sess)
                /\ UNCHANGED <<_embedding_cache, diskCache>>
           ELSE /\ req' = Http("verify", c, 200, FALSE, TRUE, {user_folder}, v.ret.verified, sess)
                /\ _embedding_cache' = v.cache
                /\ diskCache' = IF user_folder = UserFolder THEN v.blob ELSE diskCache
    /\ UNCHANGED <<clock, fkind, fs, call, ncalls, hist, s3objs, s3cache, tmpdirs,
                   threads, pickleBody, session>>

NextSession ==
    \/ \E c \in Clients, raw \in LoginNames : login_post(c, raw)
    \/ \E c \in Clients : logout(c)
    \/ \E c \in Clients, hasImage \in BOOLEAN, readOk \in BOOLEAN, wr \in {"ok", "openfail"},
          probe \in ApiProbes :
          verify(c, hasImage, readOk, wr, probe)

SpecSession == InitSession /\ [][NextSession]_vars

\* ------------------------------- verify_image_file while the sources change
\* verify_image_file called again and again on the user folder, with and
\* without the embedding cache, while reference images come, change and go.
NextChange ==
    \/ \E n \in 1..NSrc, prof \in CoreProfs : WriteSource(n, prof)
    \/ \E n \in 1..NSrc : RemoveSource(n)
    \/ \E probe_exists \in BOOLEAN, model_name \in ModelArgs, use_embedding_cache \in BOOLEAN :
          VerifyCall(probe_exists, model_name, use_embedding_cache, ApiProbes)
    \/ BuildStep
    \/ SaveStep(ApiProbes)
    \/ NoCacheFinish(ApiProbes)

SpecChange == Init /\ [][NextChange]_vars

\* ------------------------------------------------------------------- claims
Done == call.pc = "done"
CallKey == Key(UserFolder, call.model)
Extracted == {call.refLog[i][1] : i \in 1..Len(call.refLog)}
SnapshotNames(mtimes) == {item[1][2] : item \in mtimes}

ThmC2 ==
    (Done /\ call.viaGet /\ call.src \in {"mem", "disk"})
        => (call.served = call.current_mtimes /\ call.current_mtimes # {})

WitC2 ==
    /\ Done /\ call.viaGet /\ call.src = "mem"
    /\ Cardinality(call.served) = 2
    /\ call.changedAfter

\* C3: every in-memory entry and every readable durable copy pairs each
\* embedding with the fingerprint its source had when it was extracted.
PairedWithSource(pairs, mtimes) ==
    \A i \in 1..Len(pairs) : <<pairs[i].path, pairs[i].ver>> \in mtimes

CexC3 ==
    /\ \A k \in DOMAIN _embedding_cache :
          PairedWithSource(_embedding_cache[k].embeddings, _embedding_cache[k].mtimes)
    /\ (diskCache.exists /\ ~diskCache.corrupt)
          => PairedWithSource(diskCache.embeddings, diskCache.mtimes)

WitC4Rebuild ==
    /\ Done /\ call.viaGet /\ ~call.disturbed /\ call.preSv = 1
    /\ call.src = "build" /\ Cardinality(Extracted) = 2

\* The lookup found an in-memory entry that is valid as the data model defines
\* validity (equal snapshots); MemServable adds what line 149 and lines
\* 142-143 ask for besides.
MemSnapshotEqual ==
    /\ CallKey \in DOMAIN call.preCache
    /\ call.preCache[CallKey].mtimes = call.current_mtimes

MemServable ==
    /\ MemSnapshotEqual
    /\ call.preCache[CallKey].embeddings # <<>>
    /\ call.current_mtimes # {}

ServedFromMemory ==
    /\ ~call.diskRead
    /\ call.refs = call.preCache[CallKey].embeddings
    /\ call.refLog = <<>>

LookupOrder(memValid) ==
    /\ memValid => ServedFromMemory
    /\ call.src = "mem" => (memValid /\ ServedFromMemory)
    /\ call.diskRead => (call.use_disk_cache /\ call.src # "mem")
    /\ call.src = "disk" =>
          /\ call.diskRead
          /\ call.preBlob.model_name = call.model
          /\ call.preBlob.mtimes = call.current_mtimes
          /\ _embedding_cache[CallKey] =
                 [embeddings |-> AsArray(call.preBlob.embeddings), mtimes |-> call.current_mtimes]
          /\ call.refs = AsArray(call.preBlob.embeddings)
          /\ call.refLog = <<>>
    /\ call.src \in {"mem", "disk", "build"}

DurableIsRebuilt ==
    /\ diskCache = [exists |-> TRUE, corrupt |-> FALSE, model_name |-> call.model,
                    mtimes |-> call.saved_mtimes, embeddings |-> ToList(call.refs)]
    /\ _embedding_cache[CallKey] = [embeddings |-> call.refs, mtimes |-> call.saved_mtimes]
    /\ AsArray(diskCache.embeddings) = _embedding_cache[CallKey].embeddings
    /\ ~call.changedAfter => call.saved_mtimes = _folder_mtimes(UserFolder, fkind, fs)

CexC6 ==
    (Done /\ call.viaGet /\ call.src = "build" /\ call.use_disk_cache
          /\ call.wr \in {"ok", "none"})
        => DurableIsRebuilt

\* C6, amended: the same for every rebuild that yields at least one embedding;
\* a rebuild that yields none leaves the durable copy as it was.
ThmC6 ==
    (Done /\ call.viaGet /\ call.src = "build" /\ call.use_disk_cache)
        => /\ (call.wr = "ok" /\ call.refs # <<>>) => DurableIsRebuilt
           /\ call.refs = <<>> => (call.wr = "none" /\ diskCache = call.preBlob)

WitC6 ==
    /\ Done /\ call.viaGet /\ call.src = "build" /\ call.use_disk_cache
    /\ call.wr = "ok" /\ Len(call.refs) = 2
    /\ call.preBlob.exists /\ call.preBlob.model_name # call.model

\* C7 as stated: a /api/verify that finds in the bucket a blob written from
\* the reference images the bucket still holds, and downloads it, accepts it
\* and runs extraction on no reference image.
CexC7 ==
    (req.kind = "verify" /\ req.status = 200 /\ req.fresh /\ req.got)
        => (req.src = "disk" /\ req.refLog = <<>>)

\* What the endpoints do instead: no request ever accepts a downloaded blob.
NeverFromBlob == req.src # "disk"

\* C8: verify_image_file goes through path check, reference lookup, probe
\* extraction and matching in that order and stops at the first that fails;
\* with no probe file it returns (False, "Image file not found.") and has not
\* listed the references, run extraction or touched either cache.
StageOrder == <<"path", "refs", "probe", "match">>

ThmC8 ==
    (Done /\ call.op = "verify")
        => /\ Len(call.stages) \in 1..4
           /\ call.stages = SubSeq(StageOrder, 1, Len(call.stages))
           /\ ~call.probe_exists <=> call.stages = <<"path">>
           /\ ~call.probe_exists =>
                 /\ call.ret = Ret(FALSE, MsgNotFound, 0)
                 /\ ~call.listed /\ call.refLog = <<>> /\ call.probeLog = <<>>
                 /\ _embedding_cache = call.preCache
                 /\ diskCache = call.preBlob
           /\ call.stages = <<"path", "refs">> =>
                 (call.ret = Ret(FALSE, MsgNoRefs, 0) /\ call.refs = <<>> /\ call.probeLog = <<>>)
           /\ call.stages = <<"path", "refs", "probe">> =>
                 (call.ret = Ret(FALSE, MsgNoFaceDetected, 0) /\ call.refs # <<>>
                    /\ call.probeLog # <<>>)
           /\ call.stages = StageOrder =>
                 (call.ret.msg \in {MsgVerified, MsgNoMatch} /\ call.refs # <<>>
                    /\ call.probeLog # <<>>)

WitC8 ==
    /\ Done /\ call.op = "verify" /\ ~call.probe_exists
    /\ call.ret = Ret(FALSE, MsgNotFound, 0)
    /\ SourceTimes(fkind, fs) # {}
    /\ _embedding_cache # <<>> /\ diskCache.exists

\* A second witness of C8: a run through all four stages that verifies.
WitC8Match ==
    /\ Done /\ call.op = "verify" /\ call.stages = StageOrder /\ call.ret.verified

\* C9: with an existing probe file and no reference image (the folder is
\* missing, is no directory, or holds no image file), verify_image_file
\* returns verified=False with the no-references message, has run no
\* extraction, and has created no cache entry.
ThmC9 ==
    (Done /\ call.op = "verify" /\ call.probe_exists /\ SourceTimes(fkind, fs) = {})
        => /\ call.ret = Ret(FALSE, MsgNoRefs, 0)
           /\ call.refLog = <<>> /\ call.probeLog = <<>>
           /\ _embedding_cache = call.preCache
           /\ diskCache = call.preBlob

WitC9 ==
    /\ Done /\ call.op = "verify" /\ call.probe_exists /\ call.use_embedding_cache
    /\ fkind = "dir" /\ fs[0].mtime > 0 /\ SourceTimes(fkind, fs) = {}
    /\ call.ret = Ret(FALSE, MsgNoRefs, 0)
    /\ CallKey \notin DOMAIN _embedding_cache

\* A second witness of C9: the folder does not exist.
WitC9Missing ==
    /\ Done /\ call.op = "verify" /\ call.probe_exists /\ fkind = "missing"
    /\ call.ret = Ret(FALSE, MsgNoRefs, 0)

\* C10: the probe's backends are invoked in list order, and a backend that
\* raises a no-face failure is the last one invoked, whatever its position and
\* whatever the earlier ones did; the call then returns (False, no-face
\* message).
ThmC10 ==
    (Done /\ call.op = "verify")
        => \A i \in 1..Len(call.probeLog) :
              /\ call.probeLog[i].b = i
              /\ i < Len(call.probeLog) => call.probeLog[i].kind \in {"other", "empty"}
              /\ call.probeLog[i].kind = "noface" =>
                    /\ i = Len(call.probeLog)
                    /\ call.ret = Ret(FALSE, MsgNoFaceDetected, 0)

WitC10 ==
    /\ Done /\ call.op = "verify" /\ Len(call.probeLog) = 3
    /\ call.probeLog[1].kind = "other" /\ call.probeLog[2].kind = "empty"
    /\ call.probeLog[3].kind = "noface"
    /\ call.ret = Ret(FALSE, MsgNoFaceDetected, 0)

\* A second witness of C10: the first backend raises the no-face failure.
WitC10First ==
    /\ Done /\ call.op = "verify" /\ Len(call.probeLog) = 1
    /\ call.probeLog[1].kind = "noface"

\* C11: the probe's backends are invoked in list order, one call each; a
\* backend that raises a failure that is not a no-face failure, or returns no
\* embedding, is followed by the next one; the first backend that returns an
\* embedding is the last one invoked and its first embedding is the one
\* matched; when every backend has been invoked without an embedding the call
\* returns (False, no-face message).
PassesOn(o) ==
    \/ o.kind = "faces" /\ o.embs = <<>>
    \/ o.kind = "error" /\ "face could not be detected" \notin o.msg /\ "no face" \notin o.msg
          /\ ~("detected" \in o.msg /\ "no " \in o.msg)

ProbeReached == Done /\ call.op = "verify" /\ call.probe_exists /\ call.refs # <<>>

ThmC11 ==
    ProbeReached
        => LET k == Len(call.probeLog)
           IN  /\ k \in 1..NB
               /\ \A i \in 1..k : call.probeLog[i].b = i
               /\ \A i \in 1..NB : i <= k <=> (\A j \in 1..(i - 1) : PassesOn(call.probe[j]))
               /\ (call.probe[k].kind = "faces" /\ call.probe[k].embs # <<>>) =>
                     call.ret = Match(call.probe[k].embs[1], call.refs,
                                      _get_threshold(call.model), 1)
               /\ (\A j \in 1..NB : PassesOn(call.probe[j])) =>
                     (k = NB /\ call.ret = Ret(FALSE, MsgNoFaceDetected, 0))

WitC11 ==
    /\ ProbeReached /\ Len(call.probeLog) = 3
    /\ call.probe[1].kind = "error" /\ PassesOn(call.probe[1])
    /\ call.probe[2].kind = "faces" /\ PassesOn(call.probe[2])
    /\ call.probe[3].kind = "faces" /\ call.probe[3].embs # <<>>
    /\ call.ret.verified

\* A second witness of C11: every backend is exhausted.
WitC11Exhausted ==
    /\ ProbeReached /\ \A j \in 1..NB : PassesOn(call.probe[j])
    /\ call.ret = Ret(FALSE, MsgNoFaceDetected, 0)

\* A third witness of C11: the first backend's embedding ends the iteration.
WitC11FirstWins ==
    /\ ProbeReached /\ Len(call.probeLog) = 1
    /\ call.probe[1].kind = "faces" /\ call.probe[1].embs # <<>>

\* C12 as stated: in a rebuild, each reference source has its backends tried
\* in list order, and backend b is tried exactly when every backend before it
\* raised or returned no embedding.
YieldsNone(o) == o.kind = "error" \/ o.embs = <<>>

Rebuilt == Done /\ call.src = "build" /\ ~call.disturbed

CexC12 ==
    Rebuilt
        => \A i \in 1..Len(call.ref_paths) :
              LET name == call.ref_paths[i]
                  tried == {call.refLog[k][2] : k \in {x \in 1..Len(call.refLog) :
                                                           call.refLog[x][1] = name}}
              IN  \A b \in 1..NB :
                     b \in tried <=>
                        (\A j \in 1..(b - 1) : YieldsNone(RefProfiles[fs[name].prof][j]))

\* What _build_ref_embeddings does instead: backend b is tried exactly when
\* every backend before it raised.
BuildStopsAtFirstReturn ==
    Rebuilt
        => \A i \in 1..Len(call.ref_paths) :
              LET name == call.ref_paths[i]
                  tried == {call.refLog[k][2] : k \in {x \in 1..Len(call.refLog) :
                                                           call.refLog[x][1] = name}}
              IN  \A b \in 1..NB :
                     b \in tried <=>
                        (\A j \in 1..(b - 1) : RefProfiles[fs[name].prof][j].kind = "error")

\* C13: with a probe embedding and a non-empty reference sequence,
\* verify_image_file returns verified=True exactly when some reference
\* embedding is within the model's threshold of the probe embedding; the
\* distance reported is that of the first such reference in sequence order;
\* when none is, it returns (False, "Face does not match the registered user.").
MatchReached == Done /\ call.op = "verify" /\ call.stages = StageOrder

Live == call.probe[Len(call.probeLog)].embs[1]
DistTo(i) == _cosine_distance(Live, call.refs[i].emb)

ThmC13 ==
    MatchReached
        => LET within == {i \in 1..Len(call.refs) : DistTo(i) <= _get_threshold(call.model)}
           IN  /\ call.ret.verified <=> within # {}
               /\ within # {} =>
                     \E i \in within :
                        /\ \A j \in within : i <= j
                        /\ call.ret = Ret(TRUE, MsgVerified, DistTo(i))
               /\ within = {} => call.ret = Ret(FALSE, MsgNoMatch, 0)

WitC13 ==
    /\ MatchReached /\ call.ret.verified /\ Len(call.refs) = 3
    /\ DistTo(1) > _get_threshold(call.model)
    /\ DistTo(2) <= _get_threshold(call.model)
    /\ DistTo(3) <= _get_threshold(call.model)
    /\ DistTo(3) # DistTo(2)
    /\ call.ret.dist = DistTo(2)

\* A second witness of C13: three references, none within the threshold.
WitC13NoMatch ==
    /\ MatchReached /\ Len(call.refs) = 3 /\ call.ret = Ret(FALSE, MsgNoMatch, 0)
    /\ DistTo(1) < 1000

\* C14: a distance is accepted exactly when it is at most the model's
\* threshold, equality included; the threshold is 0.68 for ArcFace, 0.40 for
\* Facenet and VGG-Face, and 0.40 for every other model name.
TableThreshold(model) == IF model = "ArcFace" THEN 680 ELSE 400

ThmC14 ==
    MatchReached
        => /\ call.ret.verified <=>
                 (\E i \in 1..Len(call.refs) : DistTo(i) <= TableThreshold(call.model))
           /\ call.ret.verified => call.ret.dist <= TableThreshold(call.model)
           /\ _get_threshold(call.model) = TableThreshold(call.model)

WitC14 ==
    /\ MatchReached /\ call.model = "Facenet" /\ call.ret.verified
    /\ call.ret.dist = 400
    /\ \A i \in 1..Len(call.refs) : DistTo(i) >= 400

\* More witnesses of C14: ArcFace accepts a distance Facenet's threshold
\* rejects; a model the table does not hold rejects that distance and accepts
\* the boundary; ArcFace rejects a distance above its own threshold.
WitC14ArcFace ==
    /\ MatchReached /\ call.model = "ArcFace" /\ call.ret.verified /\ call.ret.dist = 648

WitC14Unknown ==
    /\ MatchReached /\ call.model = "SFace" /\ ~call.ret.verified
    /\ \E i \in 1..Len(call.refs) : DistTo(i) = 648

WitC14UnknownBoundary ==
    /\ MatchReached /\ call.model = "SFace" /\ call.ret.verified /\ call.ret.dist = 400

WitC14Above ==
    /\ MatchReached /\ call.model = "ArcFace" /\ ~call.ret.verified
    /\ \E i \in 1..Len(call.refs) : DistTo(i) = 720

\* C15 as stated: a get_ref_embeddings call that repeats the call finished
\* just before it (same arguments, no reference source changed during or
\* after that call, same process) returns what that call returned and leaves
\* the in-memory cache and the durable copy as that call left them.
Repeated ==
    /\ Done /\ call.viaGet /\ call.op = "get" /\ call.again
    /\ ~call.disturbed /\ ~call.changedAfter

CexC15 ==
    Repeated
        => /\ call.refs = call.preRes
           /\ _embedding_cache = call.preCache
           /\ diskCache = call.preBlob

\* C16 as stated: no two get_ref_embeddings calls for the same
\* (identity, model) key are inside _build_ref_embeddings at the same time.
Building(t) == threads[t].pc = "build"

CexC16 ==
    \A t \in Threads, u \in Threads :
        (t # u /\ Building(t) /\ Building(u)) => threads[t].model # threads[u].model

\* C17 as stated: with unchanged reference sources every concurrent call
\* returns what a call made alone returns, and once all calls have returned
\* the in-memory entries and the pickle file each hold the result of one
\* rebuild.
Returned(t) == threads[t].pc = "done"
AllReturned == (\A t \in Threads : threads[t].pc \in {"idle", "done"}) /\ (\E t \in Threads : Returned(t))
Alone == AsArray(_build_ref_embeddings(UserFolder, fkind, fs).result)

CexC17 ==
    /\ \A t \in Threads : Returned(t) => (AsArray(threads[t].refs) = Alone /\ ~threads[t].mixed)
    /\ AllReturned
          => /\ ~Torn(diskCache, pickleBody)
             /\ diskCache.exists => ~diskCache.corrupt
             /\ \A k \in DOMAIN _embedding_cache :
                   /\ AsArray(_embedding_cache[k].embeddings) = Alone
                   /\ _embedding_cache[k].mtimes = SourceTimes(fkind, fs)

\* C18: a verify_image_file call whose read of the pickle raised (or found
\* the file corrupt) rebuilt the embeddings; a call whose write of the pickle
\* failed still stored the in-memory entry and returned the rebuilt
\* embeddings; and either call returned what it would have returned with
\* use_disk_cache=False.
VerifiedViaStore == Done /\ call.op = "verify" /\ call.viaGet
ReadFailed == call.diskRead /\ (~call.readOk \/ call.preBlob.corrupt)
WriteFailed == call.wr \in {"openfail", "partial"}
RebuiltNow == _build_ref_embeddings(UserFolder, fkind, fs).result
WithoutDisk ==
    LET got == get_ref_embeddings(call.preCache, call.preBlob, UserFolder, fs, call.model,
                                  FALSE, TRUE, "none")
    IN  VerifyTail(got.refs, call.model, call.probe).ret

ThmC18 ==
    VerifiedViaStore
        => /\ ReadFailed => (call.src = "build" /\ call.refs = RebuiltNow)
           /\ WriteFailed
                 => /\ call.refs = RebuiltNow
                    /\ ~call.changedAfter
                          => /\ Key(UserFolder, call.model) \in DOMAIN _embedding_cache
                             /\ _embedding_cache[Key(UserFolder, call.model)].embeddings = call.refs
           /\ (ReadFailed \/ WriteFailed) => call.ret = WithoutDisk

\* a read that raised on a pickle that would have been served, with a probe that matches
WitC18 ==
    /\ VerifiedViaStore /\ ReadFailed /\ ~call.readOk
    /\ DiskBlobAccepted(call.preBlob, call.model, call.current_mtimes, TRUE)
    /\ call.ret.verified

WitC18Corrupt == VerifiedViaStore /\ ReadFailed /\ call.preBlob.corrupt /\ call.refs # <<>>

WitC18Write == VerifiedViaStore /\ WriteFailed /\ call.ret.verified

\* C19: whatever the extraction does on the probe and on the reference
\* images, verify_image_file returns one of five results: file not found, no
\* references, no face detected, no match (all with False) or verified (with
\* True). A reference image on which every backend raises does not make the
\* result "no references" when another reference image yields an embedding,
\* and probe backends that raise something other than a no-face error do not
\* make the result a failure when the next backend yields an embedding: "no
\* face detected" is returned only after a no-face error or after every
\* backend was tried without an embedding.
VerifyDone == Done /\ call.op = "verify"
FailureMessages == {MsgNotFound, MsgNoRefs, MsgNoFaceDetected, MsgNoMatch}
GivesFace(o) == o.kind = "faces" /\ o.embs # <<>>
OtherFailure(o) == o.kind = "error" /\ ~_is_no_face_error(o.msg)
IsReference(n) == fkind = "dir" /\ fs[n].mtime > 0 /\ Suffix(n) \in IMAGE_EXTENSIONS
Contributes(n) ==
    /\ IsReference(n)
    /\ \E b \in 1..NB :
          /\ GivesFace(RefProfiles[fs[n].prof][b])
          /\ \A j \in 1..(b - 1) : RefProfiles[fs[n].prof][j].kind = "error"
FailsAll(n) ==
    /\ IsReference(n)
    /\ \A b \in 1..NB : RefProfiles[fs[n].prof][b].kind = "error"
ProbeRecovers ==
    \E k \in 1..NB :
        /\ GivesFace(call.probe[k])
        /\ \A j \in 1..(k - 1) : OtherFailure(call.probe[j])

ThmC19 ==
    VerifyDone
        => /\ \/ call.ret.msg \in FailureMessages /\ ~call.ret.verified
              \/ call.ret.msg = MsgVerified /\ call.ret.verified
           /\ (call.probe_exists /\ \E n \in Names : Contributes(n)) => call.ret.msg # MsgNoRefs
           /\ (ProbeReached /\ ProbeRecovers) => call.ret.msg \in {MsgVerified, MsgNoMatch}
           /\ (ProbeReached /\ call.ret.msg = MsgNoFaceDetected)
                 => LET last == call.probe[Len(call.probeLog)]
                    IN  \/ last.kind = "error" /\ ~OtherFailure(last)
                        \/ /\ Len(call.probeLog) = NB
                           /\ \A j \in 1..NB : ~GivesFace(call.probe[j])

\* one reference fails on every backend, another yields an embedding, the
\* first probe backend raises another error, the second finds the face
WitC19 ==
    /\ VerifyDone /\ call.ret.verified
    /\ \E n \in Names : FailsAll(n)
    /\ \E n \in Names : Contributes(n)
    /\ OtherFailure(call.probe[1]) /\ GivesFace(call.probe[2])

WitC19NoFace == VerifyDone /\ call.ret.msg = MsgNoFaceDetected /\ OtherFailure(call.probe[1])

\* C20: POST /verify runs the verification only for a session whose username
\* a POST /login with a known name has set, and runs it on that user's
\* folder; a request whose session holds no username gets 401 and runs no
\* verification; after GET /logout every POST /verify gets 401 until a login
\* succeeds; a login with an unknown name leaves the session as it was.
ThmC20 ==
    /\ \A c \in Clients :
          session[c].username # ""
              => session[c].username \in DOMAIN USERS /\ session[c].last = "login"
    /\ req.kind = "verify"
          => LET sess == session[req.client]
             IN  /\ req.ran
                       => /\ sess.username \in DOMAIN USERS /\ sess.last = "login"
                          /\ sess.username = "alice" => req.folder = {UserFolder}
                          /\ sess.username # "alice" => UserFolder \notin req.folder
                          /\ Cardinality(req.folder) = 1
                 /\ sess.username = "" => (req.status = 401 /\ ~req.ran)
                 /\ sess.last = "logout" => (req.status = 401 /\ ~req.ran)
    /\ (req.kind = "login" /\ ~req.known) => session[req.client] = req.before

\* alice is logged in in one browser and verified, the other browser has no session
WitC20 ==
    /\ req.kind = "verify" /\ req.ran /\ req.verified
    /\ session[req.client].username = "alice"
    /\ \E c \in Clients : session[c].username = ""

WitC20Logout ==
    /\ req.kind = "verify" /\ req.status = 401
    /\ session[req.client].last = "logout"
    /\ \E c \in Clients : session[c].username # ""

WitC20Unknown == req.kind = "login" /\ ~req.known /\ req.before.username = "alice"

\* C21: when the user folder lists at least one reference image and the
\* reference embeddings verify_image_file obtains are empty, it returns
\* (False, no references) and calls the extraction on the probe zero times.
EmptyReferences ==
    /\ VerifyDone /\ call.probe_exists
    /\ call.listed /\ call.ref_paths # <<>>
    /\ call.refs = <<>>

ThmC21 ==
    EmptyReferences
        => /\ call.ret = Ret(FALSE, MsgNoRefs, 0)
           /\ call.probeLog = <<>>
           /\ "probe" \notin Range(call.stages)

\* every backend raised on every reference image of the folder
WitC21 ==
    /\ EmptyReferences
    /\ call.refLog # <<>>
    /\ \A i \in 1..Len(call.ref_paths) : FailsAll(call.ref_paths[i])

WitC21Two == WitC21 /\ Len(call.ref_paths) = 2 /\ Len(call.refLog) = 2 * NB

\* C22: a rebuild returns, in the sorted order of the reference images, one
\* pair (embedding, path) for every embedding returned by the backend used
\* for the image (the first backend that does not raise); an image on which
\* every backend raises contributes no pair and the pairs of the images
\* after it are still there.
UsedEmbs(n) ==
    LET prof == RefProfiles[fs[n].prof]
        returned == {b \in 1..NB : prof[b].kind = "faces"}
    IN  IF returned = {} THEN <<>>
        ELSE prof[CHOOSE b \in returned : \A x \in returned : b <= x].embs

PairsOf(refs, n) ==
    LET FromN(p) == p.path = <<UserFolder, n>>
        sel == SelectSeq(refs, FromN)
    IN  [i \in 1..Len(sel) |-> sel[i].emb]

ThmC22 ==
    Rebuilt
        => /\ \A n \in Names :
                 PairsOf(call.refs, n) = IF IsReference(n) THEN UsedEmbs(n) ELSE <<>>
           /\ \A i \in 1..Len(call.refs) : \A j \in 1..Len(call.refs) :
                 i < j => call.refs[i].path[2] <= call.refs[j].path[2]
           /\ \A i \in 1..Len(call.refs) : call.refs[i].path[1] = UserFolder

\* the first image fails on every backend, the second has two faces
WitC22 ==
    /\ Rebuilt
    /\ FailsAll(1)
    /\ IsReference(2) /\ Len(UsedEmbs(2)) = 2
    /\ Len(call.refs) = 2

WitC22Order ==
    /\ Rebuilt
    /\ Len(call.refs) = 3
    /\ call.refs[1].path = <<UserFolder, 1>> /\ call.refs[2].path = <<UserFolder, 2>>

\* C23 as stated: a verify_image_file call that uses the embedding cache,
\* during which no reference source changes, returns what the same call
\* with use_embedding_cache=False returns on the same probe and sources.
Uncached == VerifyTail(RebuiltNow, call.model, call.probe).ret

CexC23 ==
    (VerifiedViaStore /\ ~call.disturbed /\ ~call.changedAfter)
        => call.ret = Uncached

\* C24 as stated: a get_ref_embeddings call that persists its rebuild for
\* one model leaves the durable copy another model has for the same folder
\* as it was: a copy a lookup for that other model accepted before the call
\* is still accepted after it.
OtherModelCopy ==
    /\ call.preBlob.model_name # call.model
    /\ DiskBlobAccepted(call.preBlob, call.preBlob.model_name, call.current_mtimes, TRUE)

CexC24 ==
    (Done /\ call.viaGet /\ call.wr = "ok" /\ ~call.disturbed /\ ~call.changedAfter /\ OtherModelCopy)
        => DiskBlobAccepted(diskCache, call.preBlob.model_name, call.current_mtimes, TRUE)

\* C25: the result of verify_image_file depends on the first embedding of
\* the probe only: every probe that differs from the one verified in nothing
\* but the second and later embeddings its backends return gets the same
\* result against the same references and model.
SameFirstFace(p, q) ==
    \A b \in 1..NB :
        /\ p[b].kind = q[b].kind
        /\ p[b].msg = q[b].msg
        /\ (p[b].embs = <<>>) = (q[b].embs = <<>>)
        /\ p[b].embs # <<>> => p[b].embs[1] = q[b].embs[1]

ThmC25 ==
    MatchReached
        => \A p \in MatchProbes, q \in MatchProbes :
              (SameFirstFace(p, q) /\ p[1].embs[1] = Live)
                  => /\ VerifyTail(call.refs, call.model, p).ret = call.ret
                     /\ VerifyTail(call.refs, call.model, q).ret = call.ret

\* the probe has two faces, the first matches no reference, the second would
WitC25 ==
    /\ MatchReached /\ ~call.ret.verified
    /\ Len(call.probe[1].embs) = 2
    /\ \E i \in 1..Len(call.refs) :
          _cosine_distance(call.probe[1].embs[2], call.refs[i].emb) <= _get_threshold(call.model)

WitC25Verified ==
    /\ MatchReached /\ call.ret.verified
    /\ Len(call.probe[1].embs) = 2
    /\ \A i \in 1..Len(call.refs) :
          _cosine_distance(call.probe[1].embs[2], call.refs[i].emb) > _get_threshold(call.model)

\* C26: the in-memory cache holds at most one entry per (identity, model)
\* pair that was requested.  The endpoints serve one identity with one model
\* (VERIFICATION_MODEL), so the cache never holds more than one entry.
RequestedPairs == IF nreq = 0 THEN {} ELSE {<<"user", VERIFICATION_MODEL>>}

CexC26 == Cardinality(DOMAIN _embedding_cache) <= Cardinality(RequestedPairs)

\* C27: when an /api/verify or /api/register handler has returned, every
\* temporary reference directory download_user_refs_to_temp_dir created
\* during the request has been removed: the directory of the last request
\* does not exist any more, and none is left over from earlier requests.
CexC27 == req.kind # "none" => (req.dir \notin tmpdirs /\ tmpdirs = {})

\* C28: verify_image_file with use_embedding_cache=False leaves the in-memory
\* cache and the durable copy as they were when the call began, whatever the
\* call returns, and when it gets as far as the references it runs the
\* extraction on every reference source, also on those a cache holds.
UncachedDone == VerifyDone /\ ~call.use_embedding_cache

WitC28Empty ==
    /\ UncachedDone /\ call.refs # <<>>
    /\ _embedding_cache = <<>> /\ ~diskCache.exists

\* C29: /api/register answers success exactly when upload_reference_image
\* stored the image.  Every /api/register step that stores a new object
\* answers 200 and every one that stores none answers 500, whether or not
\* the precompute that follows (download, rebuild, cache upload) worked; no
\* step of either endpoint removes or replaces a stored reference image; and
\* the verification that follows a registration whose precompute failed
\* extracts the embeddings of every stored image itself.
Stored == {n \in 1..NSrc : s3objs[n] = 0 /\ s3objs'[n] # 0}
PrecomputeFailed == req.kind = "register" /\ req.status = 200 /\ (req.src = "none" \/ ~req.uploaded)

ThmC29 ==
    [][/\ (nreq' # nreq /\ req'.kind = "register")
             => /\ req'.status \in {200, 500}
                /\ (req'.status = 200) <=> (Stored # {})
                /\ Cardinality(Stored) <= 1
       /\ \A n \in 1..NSrc : s3objs[n] # 0 => s3objs'[n] = s3objs[n]
       /\ (PrecomputeFailed /\ nreq' # nreq /\ req'.kind = "verify" /\ req'.status = 200)
             => /\ req'.src = "build"
                /\ {e[1] : e \in Range(req'.refLog)} = list_user_reference_keys(s3objs)]_vars

\* a registration answered 200 although the download of the references failed
WitC29 ==
    /\ req.kind = "register" /\ req.status = 200 /\ req.src = "none"
    /\ req.dir \in tmpdirs
    /\ list_user_reference_keys(s3objs) # {}

\* a registration answered 200 although the cache upload failed
WitC29Upload ==
    /\ req.kind = "register" /\ req.status = 200 /\ req.src = "build" /\ ~req.uploaded
    /\ Len(req.refLog) > 0

\* a verification that rebuilt after a failed precompute left no blob behind
WitC29Verify ==
    /\ req.kind = "verify" /\ req.status = 200 /\ req.verified /\ req.src = "build"
    /\ tmpdirs # {} /\ ~s3cache.exists

\* C30: a zero-norm embedding never matches.  _cosine_distance is exactly 1.0
\* (1000 thousandths) whenever the probe or the reference has zero norm;
\* every threshold, the default for unlisted models included, is below 1.0;
\* so a probe of zero norm is rejected with "no match" whatever the
\* references are, and a verification that succeeds does so on a reference
\* of nonzero norm.
ZeroNorm(v) == Dot(v, v) = 0

ThmC30 ==
    /\ \A m \in DOMAIN DISTANCE_THRESHOLDS : DISTANCE_THRESHOLDS[m] < 1000
    /\ MatchReached
          => /\ _get_threshold(call.model) < 1000
             /\ \A i \in 1..Len(call.refs) :
                   (ZeroNorm(Live) \/ ZeroNorm(call.refs[i].emb))
                       => (DistTo(i) = 1000 /\ DistTo(i) > _get_threshold(call.model))
             /\ ZeroNorm(Live) => call.ret = Ret(FALSE, MsgNoMatch, 0)
             /\ (\A i \in 1..Len(call.refs) : ZeroNorm(call.refs[i].emb))
                   => call.ret = Ret(FALSE, MsgNoMatch, 0)
             /\ call.ret.verified
                   => \E i \in 1..Len(call.refs) :
                         /\ ~ZeroNorm(call.refs[i].emb)
                         /\ DistTo(i) = call.ret.dist
                         /\ \A j \in 1..(i - 1) : DistTo(j) > _get_threshold(call.model)

\* a zero-norm probe against references of nonzero norm, for an unlisted model
WitC30 ==
    /\ MatchReached /\ ZeroNorm(Live) /\ ~call.ret.verified
    /\ call.model \notin DOMAIN DISTANCE_THRESHOLDS
    /\ \E i \in 1..Len(call.refs) : ~ZeroNorm(call.refs[i].emb)

\* a zero-norm reference is passed over and a later reference matches
WitC30Reference ==
    /\ MatchReached /\ call.ret.verified /\ Len(call.refs) >= 2
    /\ ZeroNorm(call.refs[1].emb) /\ ~ZeroNorm(Live)

====
